---------------------------- MODULE Spec2Model ----------------------------
(***************************************************************************)
(* A model of the torchlight image I/O helpers (src/torchlight/io.py) and  *)
(* of the InceptionV1 network definition                                   *)
(* (src/feat_viz/models/inceptionv1.py).                                   *)
(*                                                                         *)
(* Seven specifications share the module's variables:                      *)
(*   SpecNorm  normalize_array applied to bounded arrays and domains       *)
(*   SpecRelu  ReluLayer / RedirectedReLU forward and backward             *)
(*   SpecFwd   InceptionV1.forward executed statement by statement         *)
(*   SpecIO    save_images writing into an empty directory                 *)
(*   SpecLoad  load_images reading a small directory                       *)
(*   SpecRoundTrip  save_images to a .npy file, then load_images of it     *)
(*   SpecJs    array_to_jsbuffer applied to bounded arrays                 *)
(* In each of them the variables of the other parts keep their idle value. *)
(***************************************************************************)
EXTENDS Integers, Sequences, FiniteSets, TLC

VARIABLES
    \* ---- normalize_array ----
    array,          \* the caller's array object: [dtype, rank, nan, data]
    array_before,   \* the caller's array as it was when the call was made
    domain,         \* the domain argument: <<>> for None, <<low, high>> else
    norm_pc,        \* "call" before normalize_array runs, "done" after
    norm_ret,       \* what the call produced: [exc, dtype, data]
    \* ---- ReluLayer / RedirectedReLU ----
    input_tensor,   \* the tensor handed to the activation layers
    layer_out,      \* redirected_ReLU flag -> that network's layer output
    ctx_saved,      \* ctx.saved_tensors of RedirectedReLU (<<>> before forward)
    grad_output,    \* the gradient tensor handed to backward, in tenths
    grad_output_before, \* grad_output as it was when backward was called
    grad_input,     \* what backward returned, in tenths (<<>> before)
    relu_pc,        \* "idle", "ready" or "backward_done"
    \* ---- InceptionV1.forward ----
    fwd_pc,         \* index in ForwardStmts of the next assignment (0: idle)
    fwd_env,        \* the local variables of forward bound so far
    fwd_cats,       \* the CatLayer calls made so far, in order
    fwd_status,     \* "idle", "running", "returned" or "RuntimeError"
    \* ---- save_images / load_images ----
    files,          \* the file system: path -> [kind, rank, parts]
    files_before,   \* the file system as it was before the call
    images,         \* the images argument of save_images
    save_path,      \* the save_path argument of save_images
    save_exc,       \* "pending", "none" (returned) or the exception raised
    image_paths,    \* the image_paths argument of load_images
    return_as_numpy,\* the return_as_numpy argument of load_images
    load_ret,       \* what load_images produced: [exc, kind, images]
    io_pc,          \* "idle", "save", "saved", "load" or "loaded"
    \* ---- array_to_jsbuffer ----
    js_array,       \* the array argument: [ndim, dtype, elems]
    js_ret,         \* what the call produced: [exc, msg, kind, code]
    js_pc           \* "idle", "call" or "done"

norm_vars == <<array, array_before, domain, norm_pc, norm_ret>>

relu_vars == <<input_tensor, layer_out, ctx_saved, grad_output,
               grad_output_before, grad_input, relu_pc>>

fwd_vars == <<fwd_pc, fwd_env, fwd_cats, fwd_status>>

io_vars == <<files, files_before, images, save_path, save_exc, image_paths,
             return_as_numpy, load_ret, io_pc>>

js_vars == <<js_array, js_ret, js_pc>>

vars == <<norm_vars, relu_vars, fwd_vars, io_vars, js_vars>>

-----------------------------------------------------------------------------
(* Bounds of the model.                                                     *)

\* longest array (number of elements) handed to normalize_array
MaxLen == 2
\* array elements are the integers -1 .. MaxVal, and BigVal
MaxVal == 13
\* one element value above the uint8 range
BigVal == 300

-----------------------------------------------------------------------------
(* Arithmetic helpers.                                                      *)

RECURSIVE Pow2(_)
Pow2(k) == IF k = 0 THEN 1 ELSE 2 * Pow2(k - 1)

Abs(n) == IF n < 0 THEN -n ELSE n

Sign(n) == IF n < 0 THEN -1 ELSE 1

Min2(a, b) == IF a < b THEN a ELSE b

Max2(a, b) == IF a > b THEN a ELSE b

RECURSIVE SeqMin(_)
SeqMin(s) == IF Len(s) = 1 THEN s[1] ELSE Min2(s[1], SeqMin(Tail(s)))

RECURSIVE SeqMax(_)
SeqMax(s) == IF Len(s) = 1 THEN s[1] ELSE Max2(s[1], SeqMax(Tail(s)))

\* number of bits of n > 0: the least k with n < 2^k
RECURSIVE BitLen(_)
BitLen(n) == IF n = 0 THEN 0 ELSE 1 + BitLen(n \div 2)

\* whether the sequence s ends with suffix (str.endswith on a string)
EndsWith(s, suffix) ==
    /\ Len(s) >= Len(suffix)
    /\ SubSeq(s, Len(s) - Len(suffix) + 1, Len(s)) = suffix

\* whether s starts with prefix
StartsWith(s, prefix) ==
    /\ Len(s) >= Len(prefix)
    /\ SubSeq(s, 1, Len(prefix)) = prefix

-----------------------------------------------------------------------------
(* IEEE half precision (numpy float16), on fixed-point numerators.          *)
(* A float16 value x is held as the integer x * FRAC.  Every float16 of     *)
(* magnitude in [2^-2, 2^11) is a multiple of 2^-12, so the values the      *)
(* model meets (integers up to 301 in magnitude, 255/d for 1 <= |d| <= 301  *)
(* and their products) are held exactly.                                    *)

\* float16 carries 11 significant bits (10 stored)
F16_SIG == 11

\* numerators are in units of 2^-12
FRAC == Pow2(12)

\* n >= 0 rounded to a multiple of 2^k, ties to even
RoundHalfEven(n, k) ==
    LET unit == Pow2(k)
        q    == n \div unit
        r    == n % unit
        half == unit \div 2
        up   == (r > half) \/ (r = half /\ q % 2 = 1)
    IN  IF k = 0 THEN n ELSE (IF up THEN q + 1 ELSE q) * unit

\* n rounded to F16_SIG significant bits, ties to even (round-to-nearest-even)
RoundSig(n) ==
    LET m == Abs(n)
        k == BitLen(m) - F16_SIG
    IN  IF k <= 0 THEN n ELSE Sign(n) * RoundHalfEven(m, k)

\* float16(x) of a Python int x
F16(x) == RoundSig(x * FRAC)

\* a - b in float16
F16Sub(a, b) == RoundSig(a - b)

\* a * b in float16; a is integer valued (a multiple of FRAC), as every array
\* element of the model is when it is scaled
F16Mul(a, b) == RoundSig((a \div FRAC) * b)

\* 255 / d in float16, d an integer-valued numerator (a multiple of FRAC), d # 0.
\* The quotient is taken to 2^-20 with a sticky bit, then rounded once.
F16Div255(d) ==
    LET di     == Abs(d) \div FRAC
        num    == 255 * Pow2(20)
        q      == num \div di
        sticky == IF num % di = 0 THEN 0 ELSE 1
        r      == RoundSig(2 * q + sticky)       \* units of 2^-21
    IN  Sign(d) * (r \div Pow2(9))


-----------------------------------------------------------------------------
(* normalize_array (src/torchlight/io.py).                                  *)
(* An array's data is its flattened element sequence.  An integer array     *)
(* holds its elements as they are, a float16 array as FRAC numerators.     *)

None == <<>>

\* np.iinfo(np.uint8).min and .max
min_value == 0

max_value == 255

\* the greatest rank normalize_array accepts after squeezing
RankLimit == 3

FloatDtypes == {"float16"}

\* np.issubdtype(dtype, np.inexact)
IsInexact(dtype) == dtype \in FloatDtypes

\* a Python number x as an element of an array of this dtype
ToElem(dtype, x) == IF IsInexact(dtype) THEN F16(x) ELSE x

\* array.clip(lo, hi): np.minimum(np.maximum(a, lo), hi), a new array
Clip(data, lo, hi) == [i \in 1..Len(data) |-> Min2(Max2(data[i], lo), hi)]

\* array -= offset, on a float array
SubInPlace(data, offset) == [i \in 1..Len(data) |-> F16Sub(data[i], offset)]

\* array *= scalar, on a float array
MulInPlace(data, scalar) == [i \in 1..Len(data) |-> F16Mul(data[i], scalar)]

\* element conversion of astype(np.uint8): a float is truncated toward zero,
\* an integer wraps modulo 2^8
ToUint8(dtype, v) ==
    IF IsInexact(dtype)
    THEN (Sign(v) * (Abs(v) \div FRAC)) % 256
    ELSE v % 256

\* array.astype(np.uint8)
AstypeUint8(dtype, data) ==
    [dtype |-> "uint8", data |-> [i \in 1..Len(data) |-> ToUint8(dtype, data[i])]]

\* the mutant of FinalCast: the trailing astype left out
FinalCastNoAstype(dtype, data) ==
    [dtype |-> dtype, data |-> Clip(data, ToElem(dtype, min_value), ToElem(dtype, max_value))]

\* array.clip(min_value, max_value).astype(np.uint8)
FinalCast(dtype, data) ==
    AstypeUint8(dtype, Clip(data, ToElem(dtype, min_value), ToElem(dtype, max_value)))

\* the mutant of WorkBuffer: np.asarray in place of np.array, no copy made
WorkBufferAliased == "user"

\* array = np.array(array): the buffer the working array lives in
WorkBuffer == "copy"

\* the in-place part of normalize_array on a float array whose elements are
\* data and whose (measured or given) domain is <<d0, d1>>, in numerators
ScaleInPlace(data, d0, d1) ==
    LET shifted == IF d0 # 0 THEN SubInPlace(data, d0) ELSE data
        scalar  == F16Div255(d1 - d0)
    IN  IF d0 # d1 /\ scalar # F16(1) THEN MulInPlace(shifted, scalar) ELSE shifted

Raised(exc, user) == [exc |-> exc, dtype |-> "none", data |-> <<>>, user |-> user]

\* whether the dtype can hold the Python int x (np.iinfo(dtype).min <= x <= max);
\* the 64-bit and the float dtypes hold every number the model meets
Holds(dtype, x) == dtype # "uint8" \/ (x >= min_value /\ x <= max_value)

\* Whether array.clip(lo, hi) raises OverflowError on an integer array.  Under
\* NumPy >= 2 promotion a Python int bound is cast to the array's dtype: clip
\* drops a low bound <= iinfo.min and a high bound >= iinfo.max, and a bound
\* that is left and that the dtype cannot hold raises.  Under NumPy 1.x
\* promotion the array is widened instead and nothing raises.
ClipOverflows(dtype, lo, hi, nep50) ==
    /\ nep50
    /\ dtype = "uint8"
    /\ \/ (lo > min_value /\ ~Holds(dtype, lo))
       \/ (hi < max_value /\ ~Holds(dtype, hi))

\* normalize_array(a, dom): what it returns or raises, and what the caller's
\* buffer holds afterwards (field user).  nep50 tells which promotion rules the
\* installed NumPy applies to Python int bounds.
normalize_array(a, dom, nep50) ==
    IF a.rank > RankLimit \/ a.nan THEN Raised("AssertionError", a.data)
    ELSE IF Len(a.data) = 0 THEN Raised("ValueError", a.data)   \* np.min of an empty array
    ELSE
    LET dt      == a.dtype
        low     == SeqMin(a.data)
        high    == SeqMax(a.data)
        d0      == IF dom = None THEN low  ELSE ToElem(dt, dom[1])
        d1      == IF dom = None THEN high ELSE ToElem(dt, dom[2])
        clipped == low < d0 \/ high > d1
        \* the buffer the working array is in when the in-place steps run
        buf     == IF clipped THEN "clipped" ELSE WorkBuffer
        data1   == IF clipped THEN Clip(a.data, d0, d1) ELSE a.data
        data2   == IF IsInexact(dt) THEN ScaleInPlace(data1, d0, d1) ELSE data1
        out     == FinalCast(dt, data2)
    IN  IF clipped /\ ClipOverflows(dt, d0, d1, nep50)
        THEN Raised("OverflowError", a.data)
        ELSE [exc |-> "none", dtype |-> out.dtype, data |-> out.data,
              user |-> IF buf = "user" THEN data2 ELSE a.data]

IntDtypes == {"int64", "uint8"}

Vals == (-1 .. MaxVal) \cup {BigVal}

\* the element values an array of this dtype can hold
ValsOf(dtype) == IF dtype = "uint8" THEN {v \in Vals : v >= 0 /\ v <= 255} ELSE Vals

RECURSIVE SeqsUpTo(_, _)
SeqsUpTo(S, n) ==
    IF n = 0 THEN {<<>>}
    ELSE LET shorter == SeqsUpTo(S, n - 1)
         IN  shorter \cup {Append(s, v) : s \in {t \in shorter : Len(t) = n - 1}, v \in S}

DomLows == {-1, 0, MaxVal}

DomHighs == {-1, 0, MaxVal, max_value}

\* the domains tried: None, and pairs of Python ints (low < high, low = high
\* and low > high among them)
Domains == {None} \cup {<<lo, hi>> : lo \in DomLows, hi \in DomHighs}

Dtypes == FloatDtypes \cup IntDtypes

ElemSeq(dtype, s) == [i \in 1..Len(s) |-> ToElem(dtype, s[i])]

\* the arrays tried: every dtype and every element sequence up to MaxLen, of
\* rank RankLimit; and, with at most one element, the arrays an assertion
\* rejects: one rank too many, or (a float array) holding a NaN
Arrays ==
    {[dtype |-> dt, rank |-> RankLimit, nan |-> FALSE, data |-> ElemSeq(dt, s)]
        : dt \in Dtypes, s \in SeqsUpTo(Vals, MaxLen)}
    \cup
    {[dtype |-> dt, rank |-> RankLimit + 1, nan |-> FALSE, data |-> ElemSeq(dt, s)]
        : dt \in Dtypes, s \in SeqsUpTo(Vals, 1)}
    \cup
    {[dtype |-> dt, rank |-> RankLimit, nan |-> TRUE, data |-> ElemSeq(dt, s)]
        : dt \in FloatDtypes, s \in SeqsUpTo(Vals, 1)}

WellTyped(a) == \A i \in 1..Len(a.data) : a.data[i] \in {ToElem(a.dtype, v) : v \in ValsOf(a.dtype)}

NoRet == [exc |-> "pending", dtype |-> "none", data |-> <<>>]

NormIdle ==
    /\ array = [dtype |-> "int64", rank |-> RankLimit, nan |-> FALSE, data |-> <<>>]
    /\ array_before = array
    /\ domain = None
    /\ norm_pc = "idle"
    /\ norm_ret = NoRet

NormInit ==
    /\ array \in {a \in Arrays : WellTyped(a)}
    /\ array_before = array
    /\ domain \in Domains
    /\ norm_pc = "call"
    /\ norm_ret = NoRet

\* one call normalize_array(array, domain)
CallNormalize ==
    /\ norm_pc = "call"
    /\ \E nep50 \in BOOLEAN :
         LET r == normalize_array(array, domain, nep50)
         IN  /\ norm_ret' = [exc |-> r.exc, dtype |-> r.dtype, data |-> r.data]
             /\ array' = [array EXCEPT !.data = r.user]
    /\ norm_pc' = "done"
    /\ UNCHANGED <<array_before, domain>>

-----------------------------------------------------------------------------
(* ReluLayer, RedirectedReLU and RedirectedReluLayer                        *)
(* (src/feat_viz/models/inceptionv1.py).  A tensor is its flattened element *)
(* sequence.  Activations are integers; gradients are held in tenths, so    *)
(* that the product with 1e-1 is exact.                                     *)

\* longest tensor handed to the activation layers
MaxTensorLen == 2
\* activations are the integers -MaxAct .. MaxAct
MaxAct == 2
\* gradients are the integers -MaxGrad .. MaxGrad
MaxGrad == 2

\* 1 / 1e-1: gradients are held as multiples of one tenth
TENTHS == 10

\* F.relu(tensor): max(x, 0) elementwise
F_relu(t) == [i \in 1..Len(t) |-> Max2(t[i], 0)]

\* the mutant of Clamp: the bound applied from above, clamp(max=lo)
ClampMax(t, lo) == [i \in 1..Len(t) |-> IF t[i] > lo THEN lo ELSE t[i]]

\* input_tensor.clamp(min=lo)
Clamp(t, lo) == [i \in 1..Len(t) |-> IF t[i] < lo THEN lo ELSE t[i]]

\* RedirectedReLU.forward(ctx, input_tensor): the output and what ctx saves
RedirectedReLU_forward(t) == [out |-> Clamp(t, 0), saved |-> t]

\* the relu class add_layers picks for every activation of the network
add_layers(redirected_ReLU) ==
    IF redirected_ReLU THEN "RedirectedReluLayer" ELSE "ReluLayer"

\* the mutant of Masked: input_tensor <= 0 in place of input_tensor < 0
MaskedLe(x) == x <= 0

\* the mask input_tensor < 0 of backward, at one element
Masked(x) == x < 0

\* grad_input = grad_output.clone(): the buffer grad_input lives in
GradBuffer == "clone"

\* g * 1e-1, g in tenths
Times1e_1(g) == g \div TENTHS

\* RedirectedReLU.backward(ctx, grad_output): the gradient returned, and what
\* the caller's grad_output holds afterwards
RedirectedReLU_backward(saved, g) ==
    LET gi == [i \in 1..Len(g) |-> IF Masked(saved[i]) THEN Times1e_1(g[i]) ELSE g[i]]
    IN  [grad_input |-> gi,
         grad_output |-> IF GradBuffer = "grad_output" THEN gi ELSE g]

Activations == -MaxAct .. MaxAct

Gradients == {g * TENTHS : g \in -MaxGrad .. MaxGrad}

TensorsOfLen(S, n) == {s \in SeqsUpTo(S, n) : Len(s) = n}

ReluIdle ==
    /\ input_tensor = <<>>
    /\ layer_out = [f \in BOOLEAN |-> <<>>]
    /\ ctx_saved = <<>>
    /\ grad_output = <<>>
    /\ grad_output_before = <<>>
    /\ grad_input = <<>>
    /\ relu_pc = "idle"

\* an input tensor, and a gradient of the same shape
ReluInit ==
    /\ \E n \in 1..MaxTensorLen :
          /\ input_tensor \in TensorsOfLen(Activations, n)
          /\ grad_output \in TensorsOfLen(Gradients, n)
    /\ layer_out = [f \in BOOLEAN |-> <<>>]
    /\ ctx_saved = <<>>
    /\ grad_output_before = grad_output
    /\ grad_input = <<>>
    /\ relu_pc = "ready"

\* the activation layer of the network built with redirected_ReLU = flag is
\* applied to input_tensor: ReluLayer.forward or RedirectedReluLayer.forward
LayerForward(flag) ==
    /\ relu_pc = "ready"
    /\ layer_out[flag] = <<>>
    /\ IF add_layers(flag) = "RedirectedReluLayer"
       THEN LET r == RedirectedReLU_forward(input_tensor)
            IN  /\ layer_out' = [layer_out EXCEPT ![flag] = r.out]
                /\ ctx_saved' = r.saved
       ELSE /\ layer_out' = [layer_out EXCEPT ![flag] = F_relu(input_tensor)]
            /\ UNCHANGED ctx_saved
    /\ UNCHANGED <<input_tensor, grad_output, grad_output_before, grad_input, relu_pc>>

\* autograd calls RedirectedReLU.backward with the gradient of the output
Backward ==
    /\ relu_pc = "ready"
    /\ layer_out[TRUE] # <<>>
    /\ LET r == RedirectedReLU_backward(ctx_saved, grad_output)
       IN  /\ grad_input' = r.grad_input
           /\ grad_output' = r.grad_output
    /\ relu_pc' = "backward_done"
    /\ UNCHANGED <<input_tensor, layer_out, ctx_saved, grad_output_before>>

-----------------------------------------------------------------------------
(* InceptionV1 (src/feat_viz/models/inceptionv1.py): the modules __init__   *)
(* and add_layers create, and the statements of forward, in source order.   *)

\* __init__: the convolutions and the final linear layer, by attribute name
InitModules ==
       ("conv2d0_pre_relu_conv" :> [cls |-> "Conv2d", in_channels |-> 3, out_channels |-> 64, kernel_size |-> 7, stride |-> 2])
    @@ ("conv2d1_pre_relu_conv" :> [cls |-> "Conv2d", in_channels |-> 64, out_channels |-> 64, kernel_size |-> 1, stride |-> 1])
    @@ ("conv2d2_pre_relu_conv" :> [cls |-> "Conv2d", in_channels |-> 64, out_channels |-> 192, kernel_size |-> 3, stride |-> 1])
    @@ ("mixed3a_1x1_pre_relu_conv" :> [cls |-> "Conv2d", in_channels |-> 192, out_channels |-> 64, kernel_size |-> 1, stride |-> 1])
    @@ ("mixed3a_3x3_bottleneck_pre_relu_conv" :> [cls |-> "Conv2d", in_channels |-> 192, out_channels |-> 96, kernel_size |-> 1, stride |-> 1])
    @@ ("mixed3a_5x5_bottleneck_pre_relu_conv" :> [cls |-> "Conv2d", in_channels |-> 192, out_channels |-> 16, kernel_size |-> 1, stride |-> 1])
    @@ ("mixed3a_pool_reduce_pre_relu_conv" :> [cls |-> "Conv2d", in_channels |-> 192, out_channels |-> 32, kernel_size |-> 1, stride |-> 1])
    @@ ("mixed3a_3x3_pre_relu_conv" :> [cls |-> "Conv2d", in_channels |-> 96, out_channels |-> 128, kernel_size |-> 3, stride |-> 1])
    @@ ("mixed3a_5x5_pre_relu_conv" :> [cls |-> "Conv2d", in_channels |-> 16, out_channels |-> 32, kernel_size |-> 5, stride |-> 1])
    @@ ("mixed3b_1x1_pre_relu_conv" :> [cls |-> "Conv2d", in_channels |-> 256, out_channels |-> 128, kernel_size |-> 1, stride |-> 1])
    @@ ("mixed3b_3x3_bottleneck_pre_relu_conv" :> [cls |-> "Conv2d", in_channels |-> 256, out_channels |-> 128, kernel_size |-> 1, stride |-> 1])
    @@ ("mixed3b_5x5_bottleneck_pre_relu_conv" :> [cls |-> "Conv2d", in_channels |-> 256, out_channels |-> 32, kernel_size |-> 1, stride |-> 1])
    @@ ("mixed3b_pool_reduce_pre_relu_conv" :> [cls |-> "Conv2d", in_channels |-> 256, out_channels |-> 64, kernel_size |-> 1, stride |-> 1])
    @@ ("mixed3b_3x3_pre_relu_conv" :> [cls |-> "Conv2d", in_channels |-> 128, out_channels |-> 192, kernel_size |-> 3, stride |-> 1])
    @@ ("mixed3b_5x5_pre_relu_conv" :> [cls |-> "Conv2d", in_channels |-> 32, out_channels |-> 96, kernel_size |-> 5, stride |-> 1])
    @@ ("mixed4a_1x1_pre_relu_conv" :> [cls |-> "Conv2d", in_channels |-> 480, out_channels |-> 192, kernel_size |-> 1, stride |-> 1])
    @@ ("mixed4a_3x3_bottleneck_pre_relu_conv" :> [cls |-> "Conv2d", in_channels |-> 480, out_channels |-> 96, kernel_size |-> 1, stride |-> 1])
    @@ ("mixed4a_5x5_bottleneck_pre_relu_conv" :> [cls |-> "Conv2d", in_channels |-> 480, out_channels |-> 16, kernel_size |-> 1, stride |-> 1])
    @@ ("mixed4a_pool_reduce_pre_relu_conv" :> [cls |-> "Conv2d", in_channels |-> 480, out_channels |-> 64, kernel_size |-> 1, stride |-> 1])
    @@ ("mixed4a_3x3_pre_relu_conv" :> [cls |-> "Conv2d", in_channels |-> 96, out_channels |-> 204, kernel_size |-> 3, stride |-> 1])
    @@ ("mixed4a_5x5_pre_relu_conv" :> [cls |-> "Conv2d", in_channels |-> 16, out_channels |-> 48, kernel_size |-> 5, stride |-> 1])
    @@ ("mixed4b_1x1_pre_relu_conv" :> [cls |-> "Conv2d", in_channels |-> 508, out_channels |-> 160, kernel_size |-> 1, stride |-> 1])
    @@ ("mixed4b_3x3_bottleneck_pre_relu_conv" :> [cls |-> "Conv2d", in_channels |-> 508, out_channels |-> 112, kernel_size |-> 1, stride |-> 1])
    @@ ("mixed4b_5x5_bottleneck_pre_relu_conv" :> [cls |-> "Conv2d", in_channels |-> 508, out_channels |-> 24, kernel_size |-> 1, stride |-> 1])
    @@ ("mixed4b_pool_reduce_pre_relu_conv" :> [cls |-> "Conv2d", in_channels |-> 508, out_channels |-> 64, kernel_size |-> 1, stride |-> 1])
    @@ ("mixed4b_3x3_pre_relu_conv" :> [cls |-> "Conv2d", in_channels |-> 112, out_channels |-> 224, kernel_size |-> 3, stride |-> 1])
    @@ ("mixed4b_5x5_pre_relu_conv" :> [cls |-> "Conv2d", in_channels |-> 24, out_channels |-> 64, kernel_size |-> 5, stride |-> 1])
    @@ ("mixed4c_1x1_pre_relu_conv" :> [cls |-> "Conv2d", in_channels |-> 512, out_channels |-> 128, kernel_size |-> 1, stride |-> 1])
    @@ ("mixed4c_3x3_bottleneck_pre_relu_conv" :> [cls |-> "Conv2d", in_channels |-> 512, out_channels |-> 128, kernel_size |-> 1, stride |-> 1])
    @@ ("mixed4c_5x5_bottleneck_pre_relu_conv" :> [cls |-> "Conv2d", in_channels |-> 512, out_channels |-> 24, kernel_size |-> 1, stride |-> 1])
    @@ ("mixed4c_pool_reduce_pre_relu_conv" :> [cls |-> "Conv2d", in_channels |-> 512, out_channels |-> 64, kernel_size |-> 1, stride |-> 1])
    @@ ("mixed4c_3x3_pre_relu_conv" :> [cls |-> "Conv2d", in_channels |-> 128, out_channels |-> 256, kernel_size |-> 3, stride |-> 1])
    @@ ("mixed4c_5x5_pre_relu_conv" :> [cls |-> "Conv2d", in_channels |-> 24, out_channels |-> 64, kernel_size |-> 5, stride |-> 1])
    @@ ("mixed4d_1x1_pre_relu_conv" :> [cls |-> "Conv2d", in_channels |-> 512, out_channels |-> 112, kernel_size |-> 1, stride |-> 1])
    @@ ("mixed4d_3x3_bottleneck_pre_relu_conv" :> [cls |-> "Conv2d", in_channels |-> 512, out_channels |-> 144, kernel_size |-> 1, stride |-> 1])
    @@ ("mixed4d_5x5_bottleneck_pre_relu_conv" :> [cls |-> "Conv2d", in_channels |-> 512, out_channels |-> 32, kernel_size |-> 1, stride |-> 1])
    @@ ("mixed4d_pool_reduce_pre_relu_conv" :> [cls |-> "Conv2d", in_channels |-> 512, out_channels |-> 64, kernel_size |-> 1, stride |-> 1])
    @@ ("mixed4d_3x3_pre_relu_conv" :> [cls |-> "Conv2d", in_channels |-> 144, out_channels |-> 288, kernel_size |-> 3, stride |-> 1])
    @@ ("mixed4d_5x5_pre_relu_conv" :> [cls |-> "Conv2d", in_channels |-> 32, out_channels |-> 64, kernel_size |-> 5, stride |-> 1])
    @@ ("mixed4e_1x1_pre_relu_conv" :> [cls |-> "Conv2d", in_channels |-> 528, out_channels |-> 256, kernel_size |-> 1, stride |-> 1])
    @@ ("mixed4e_3x3_bottleneck_pre_relu_conv" :> [cls |-> "Conv2d", in_channels |-> 528, out_channels |-> 160, kernel_size |-> 1, stride |-> 1])
    @@ ("mixed4e_5x5_bottleneck_pre_relu_conv" :> [cls |-> "Conv2d", in_channels |-> 528, out_channels |-> 32, kernel_size |-> 1, stride |-> 1])
    @@ ("mixed4e_pool_reduce_pre_relu_conv" :> [cls |-> "Conv2d", in_channels |-> 528, out_channels |-> 128, kernel_size |-> 1, stride |-> 1])
    @@ ("mixed4e_3x3_pre_relu_conv" :> [cls |-> "Conv2d", in_channels |-> 160, out_channels |-> 320, kernel_size |-> 3, stride |-> 1])
    @@ ("mixed4e_5x5_pre_relu_conv" :> [cls |-> "Conv2d", in_channels |-> 32, out_channels |-> 128, kernel_size |-> 5, stride |-> 1])
    @@ ("mixed5a_1x1_pre_relu_conv" :> [cls |-> "Conv2d", in_channels |-> 832, out_channels |-> 256, kernel_size |-> 1, stride |-> 1])
    @@ ("mixed5a_3x3_bottleneck_pre_relu_conv" :> [cls |-> "Conv2d", in_channels |-> 832, out_channels |-> 160, kernel_size |-> 1, stride |-> 1])
    @@ ("mixed5a_5x5_bottleneck_pre_relu_conv" :> [cls |-> "Conv2d", in_channels |-> 832, out_channels |-> 48, kernel_size |-> 1, stride |-> 1])
    @@ ("mixed5a_pool_reduce_pre_relu_conv" :> [cls |-> "Conv2d", in_channels |-> 832, out_channels |-> 128, kernel_size |-> 1, stride |-> 1])
    @@ ("mixed5a_3x3_pre_relu_conv" :> [cls |-> "Conv2d", in_channels |-> 160, out_channels |-> 320, kernel_size |-> 3, stride |-> 1])
    @@ ("mixed5a_5x5_pre_relu_conv" :> [cls |-> "Conv2d", in_channels |-> 48, out_channels |-> 128, kernel_size |-> 5, stride |-> 1])
    @@ ("mixed5b_1x1_pre_relu_conv" :> [cls |-> "Conv2d", in_channels |-> 832, out_channels |-> 384, kernel_size |-> 1, stride |-> 1])
    @@ ("mixed5b_3x3_bottleneck_pre_relu_conv" :> [cls |-> "Conv2d", in_channels |-> 832, out_channels |-> 192, kernel_size |-> 1, stride |-> 1])
    @@ ("mixed5b_5x5_bottleneck_pre_relu_conv" :> [cls |-> "Conv2d", in_channels |-> 832, out_channels |-> 48, kernel_size |-> 1, stride |-> 1])
    @@ ("mixed5b_pool_reduce_pre_relu_conv" :> [cls |-> "Conv2d", in_channels |-> 832, out_channels |-> 128, kernel_size |-> 1, stride |-> 1])
    @@ ("mixed5b_3x3_pre_relu_conv" :> [cls |-> "Conv2d", in_channels |-> 192, out_channels |-> 384, kernel_size |-> 3, stride |-> 1])
    @@ ("mixed5b_5x5_pre_relu_conv" :> [cls |-> "Conv2d", in_channels |-> 48, out_channels |-> 128, kernel_size |-> 5, stride |-> 1])
    @@ ("softmax2_pre_activation_matmul" :> [cls |-> "Linear", in_channels |-> 1024, out_channels |-> 1008, kernel_size |-> 0, stride |-> 0])

\* add_layers: the attributes given an instance of the relu class
ReluAttrs == {
    "conv2d0", "conv2d1", "conv2d2",
    "mixed3a_1x1", "mixed3a_3x3_bottleneck", "mixed3a_5x5_bottleneck",
    "mixed3a_pool_reduce", "mixed3a_3x3", "mixed3a_5x5",
    "mixed3b_1x1", "mixed3b_3x3_bottleneck", "mixed3b_5x5_bottleneck",
    "mixed3b_pool_reduce", "mixed3b_3x3", "mixed3b_5x5",
    "mixed4a_1x1", "mixed4a_3x3_bottleneck", "mixed4a_5x5_bottleneck",
    "mixed4a_pool_reduce", "mixed4a_3x3", "mixed4a_5x5",
    "mixed4b_1x1", "mixed4b_3x3_bottleneck", "mixed4b_5x5_bottleneck",
    "mixed4b_pool_reduce", "mixed4b_3x3", "mixed4b_5x5",
    "mixed4c_1x1", "mixed4c_3x3_bottleneck", "mixed4c_5x5_bottleneck",
    "mixed4c_pool_reduce", "mixed4c_3x3", "mixed4c_5x5",
    "mixed4d_1x1", "mixed4d_3x3_bottleneck", "mixed4d_5x5_bottleneck",
    "mixed4d_pool_reduce", "mixed4d_3x3", "mixed4d_5x5",
    "mixed4e_1x1", "mixed4e_3x3_bottleneck", "mixed4e_5x5_bottleneck",
    "mixed4e_pool_reduce", "mixed4e_3x3", "mixed4e_5x5",
    "mixed5a_1x1", "mixed5a_3x3_bottleneck", "mixed5a_5x5_bottleneck",
    "mixed5a_pool_reduce", "mixed5a_3x3", "mixed5a_5x5",
    "mixed5b_1x1", "mixed5b_3x3_bottleneck", "mixed5b_5x5_bottleneck",
    "mixed5b_pool_reduce", "mixed5b_3x3", "mixed5b_5x5"
}

\* add_layers: the attributes given a MaxPool2dLayer
MaxPoolAttrs == {
    "maxpool0", "maxpool1", "mixed3a_pool", "mixed3b_pool",
    "maxpool4", "mixed4a_pool", "mixed4b_pool", "mixed4c_pool",
    "mixed4d_pool", "mixed4e_pool", "maxpool10", "mixed5a_pool",
    "mixed5b_pool"
}

\* add_layers: the attributes given a CatLayer
CatAttrs == {
    "mixed3a", "mixed3b", "mixed4a", "mixed4b",
    "mixed4c", "mixed4d", "mixed4e", "mixed5a",
    "mixed5b"
}

\* add_layers: the attributes given a SoftMaxLayer
SoftMaxAttrs == {
    "softmax2"
}

\* forward: one record per assignment, in source order.  callee is F.pad,
\* F.local_response_norm, F.avg_pool2d, torch.reshape or the attribute of self
\* that is called; args are the tensors read; kernel and stride are those
\* passed to a pooling call; dim is the dimension passed to a CatLayer, or the
\* row length passed to torch.reshape.
ForwardStmts == <<
    [tgt |-> "conv2d0_pre_relu_conv_pad", callee |-> "F.pad", args |-> <<"x">>, kernel |-> 0, stride |-> 0, dim |-> 0],
    [tgt |-> "conv2d0_pre_relu_conv", callee |-> "conv2d0_pre_relu_conv", args |-> <<"conv2d0_pre_relu_conv_pad">>, kernel |-> 0, stride |-> 0, dim |-> 0],
    [tgt |-> "conv2d0", callee |-> "conv2d0", args |-> <<"conv2d0_pre_relu_conv">>, kernel |-> 0, stride |-> 0, dim |-> 0],
    [tgt |-> "maxpool0_pad", callee |-> "F.pad", args |-> <<"conv2d0">>, kernel |-> 0, stride |-> 0, dim |-> 0],
    [tgt |-> "maxpool0", callee |-> "maxpool0", args |-> <<"maxpool0_pad">>, kernel |-> 3, stride |-> 2, dim |-> 0],
    [tgt |-> "localresponsenorm0", callee |-> "F.local_response_norm", args |-> <<"maxpool0">>, kernel |-> 0, stride |-> 0, dim |-> 0],
    [tgt |-> "conv2d1_pre_relu_conv", callee |-> "conv2d1_pre_relu_conv", args |-> <<"localresponsenorm0">>, kernel |-> 0, stride |-> 0, dim |-> 0],
    [tgt |-> "conv2d1", callee |-> "conv2d1", args |-> <<"conv2d1_pre_relu_conv">>, kernel |-> 0, stride |-> 0, dim |-> 0],
    [tgt |-> "conv2d2_pre_relu_conv_pad", callee |-> "F.pad", args |-> <<"conv2d1">>, kernel |-> 0, stride |-> 0, dim |-> 0],
    [tgt |-> "conv2d2_pre_relu_conv", callee |-> "conv2d2_pre_relu_conv", args |-> <<"conv2d2_pre_relu_conv_pad">>, kernel |-> 0, stride |-> 0, dim |-> 0],
    [tgt |-> "conv2d2", callee |-> "conv2d2", args |-> <<"conv2d2_pre_relu_conv">>, kernel |-> 0, stride |-> 0, dim |-> 0],
    [tgt |-> "localresponsenorm1", callee |-> "F.local_response_norm", args |-> <<"conv2d2">>, kernel |-> 0, stride |-> 0, dim |-> 0],
    [tgt |-> "maxpool1_pad", callee |-> "F.pad", args |-> <<"localresponsenorm1">>, kernel |-> 0, stride |-> 0, dim |-> 0],
    [tgt |-> "maxpool1", callee |-> "maxpool1", args |-> <<"maxpool1_pad">>, kernel |-> 3, stride |-> 2, dim |-> 0],
    [tgt |-> "mixed3a_1x1_pre_relu_conv", callee |-> "mixed3a_1x1_pre_relu_conv", args |-> <<"maxpool1">>, kernel |-> 0, stride |-> 0, dim |-> 0],
    [tgt |-> "mixed3a_3x3_bottleneck_pre_relu_conv", callee |-> "mixed3a_3x3_bottleneck_pre_relu_conv", args |-> <<"maxpool1">>, kernel |-> 0, stride |-> 0, dim |-> 0],
    [tgt |-> "mixed3a_5x5_bottleneck_pre_relu_conv", callee |-> "mixed3a_5x5_bottleneck_pre_relu_conv", args |-> <<"maxpool1">>, kernel |-> 0, stride |-> 0, dim |-> 0],
    [tgt |-> "mixed3a_pool_pad", callee |-> "F.pad", args |-> <<"maxpool1">>, kernel |-> 0, stride |-> 0, dim |-> 0],
    [tgt |-> "mixed3a_pool", callee |-> "mixed3a_pool", args |-> <<"mixed3a_pool_pad">>, kernel |-> 3, stride |-> 1, dim |-> 0],
    [tgt |-> "mixed3a_1x1", callee |-> "mixed3a_1x1", args |-> <<"mixed3a_1x1_pre_relu_conv">>, kernel |-> 0, stride |-> 0, dim |-> 0],
    [tgt |-> "mixed3a_3x3_bottleneck", callee |-> "mixed3a_3x3_bottleneck", args |-> <<"mixed3a_3x3_bottleneck_pre_relu_conv">>, kernel |-> 0, stride |-> 0, dim |-> 0],
    [tgt |-> "mixed3a_5x5_bottleneck", callee |-> "mixed3a_5x5_bottleneck", args |-> <<"mixed3a_5x5_bottleneck_pre_relu_conv">>, kernel |-> 0, stride |-> 0, dim |-> 0],
    [tgt |-> "mixed3a_pool_reduce_pre_relu_conv", callee |-> "mixed3a_pool_reduce_pre_relu_conv", args |-> <<"mixed3a_pool">>, kernel |-> 0, stride |-> 0, dim |-> 0],
    [tgt |-> "mixed3a_3x3_pre_relu_conv_pad", callee |-> "F.pad", args |-> <<"mixed3a_3x3_bottleneck">>, kernel |-> 0, stride |-> 0, dim |-> 0],
    [tgt |-> "mixed3a_3x3_pre_relu_conv", callee |-> "mixed3a_3x3_pre_relu_conv", args |-> <<"mixed3a_3x3_pre_relu_conv_pad">>, kernel |-> 0, stride |-> 0, dim |-> 0],
    [tgt |-> "mixed3a_5x5_pre_relu_conv_pad", callee |-> "F.pad", args |-> <<"mixed3a_5x5_bottleneck">>, kernel |-> 0, stride |-> 0, dim |-> 0],
    [tgt |-> "mixed3a_5x5_pre_relu_conv", callee |-> "mixed3a_5x5_pre_relu_conv", args |-> <<"mixed3a_5x5_pre_relu_conv_pad">>, kernel |-> 0, stride |-> 0, dim |-> 0],
    [tgt |-> "mixed3a_pool_reduce", callee |-> "mixed3a_pool_reduce", args |-> <<"mixed3a_pool_reduce_pre_relu_conv">>, kernel |-> 0, stride |-> 0, dim |-> 0],
    [tgt |-> "mixed3a_3x3", callee |-> "mixed3a_3x3", args |-> <<"mixed3a_3x3_pre_relu_conv">>, kernel |-> 0, stride |-> 0, dim |-> 0],
    [tgt |-> "mixed3a_5x5", callee |-> "mixed3a_5x5", args |-> <<"mixed3a_5x5_pre_relu_conv">>, kernel |-> 0, stride |-> 0, dim |-> 0],
    [tgt |-> "mixed3a", callee |-> "mixed3a", args |-> <<"mixed3a_1x1", "mixed3a_3x3", "mixed3a_5x5", "mixed3a_pool_reduce">>, kernel |-> 0, stride |-> 0, dim |-> 1],
    [tgt |-> "mixed3b_1x1_pre_relu_conv", callee |-> "mixed3b_1x1_pre_relu_conv", args |-> <<"mixed3a">>, kernel |-> 0, stride |-> 0, dim |-> 0],
    [tgt |-> "mixed3b_3x3_bottleneck_pre_relu_conv", callee |-> "mixed3b_3x3_bottleneck_pre_relu_conv", args |-> <<"mixed3a">>, kernel |-> 0, stride |-> 0, dim |-> 0],
    [tgt |-> "mixed3b_5x5_bottleneck_pre_relu_conv", callee |-> "mixed3b_5x5_bottleneck_pre_relu_conv", args |-> <<"mixed3a">>, kernel |-> 0, stride |-> 0, dim |-> 0],
    [tgt |-> "mixed3b_pool_pad", callee |-> "F.pad", args |-> <<"mixed3a">>, kernel |-> 0, stride |-> 0, dim |-> 0],
    [tgt |-> "mixed3b_pool", callee |-> "mixed3b_pool", args |-> <<"mixed3b_pool_pad">>, kernel |-> 3, stride |-> 1, dim |-> 0],
    [tgt |-> "mixed3b_1x1", callee |-> "mixed3b_1x1", args |-> <<"mixed3b_1x1_pre_relu_conv">>, kernel |-> 0, stride |-> 0, dim |-> 0],
    [tgt |-> "mixed3b_3x3_bottleneck", callee |-> "mixed3b_3x3_bottleneck", args |-> <<"mixed3b_3x3_bottleneck_pre_relu_conv">>, kernel |-> 0, stride |-> 0, dim |-> 0],
    [tgt |-> "mixed3b_5x5_bottleneck", callee |-> "mixed3b_5x5_bottleneck", args |-> <<"mixed3b_5x5_bottleneck_pre_relu_conv">>, kernel |-> 0, stride |-> 0, dim |-> 0],
    [tgt |-> "mixed3b_pool_reduce_pre_relu_conv", callee |-> "mixed3b_pool_reduce_pre_relu_conv", args |-> <<"mixed3b_pool">>, kernel |-> 0, stride |-> 0, dim |-> 0],
    [tgt |-> "mixed3b_3x3_pre_relu_conv_pad", callee |-> "F.pad", args |-> <<"mixed3b_3x3_bottleneck">>, kernel |-> 0, stride |-> 0, dim |-> 0],
    [tgt |-> "mixed3b_3x3_pre_relu_conv", callee |-> "mixed3b_3x3_pre_relu_conv", args |-> <<"mixed3b_3x3_pre_relu_conv_pad">>, kernel |-> 0, stride |-> 0, dim |-> 0],
    [tgt |-> "mixed3b_5x5_pre_relu_conv_pad", callee |-> "F.pad", args |-> <<"mixed3b_5x5_bottleneck">>, kernel |-> 0, stride |-> 0, dim |-> 0],
    [tgt |-> "mixed3b_5x5_pre_relu_conv", callee |-> "mixed3b_5x5_pre_relu_conv", args |-> <<"mixed3b_5x5_pre_relu_conv_pad">>, kernel |-> 0, stride |-> 0, dim |-> 0],
    [tgt |-> "mixed3b_pool_reduce", callee |-> "mixed3b_pool_reduce", args |-> <<"mixed3b_pool_reduce_pre_relu_conv">>, kernel |-> 0, stride |-> 0, dim |-> 0],
    [tgt |-> "mixed3b_3x3", callee |-> "mixed3b_3x3", args |-> <<"mixed3b_3x3_pre_relu_conv">>, kernel |-> 0, stride |-> 0, dim |-> 0],
    [tgt |-> "mixed3b_5x5", callee |-> "mixed3b_5x5", args |-> <<"mixed3b_5x5_pre_relu_conv">>, kernel |-> 0, stride |-> 0, dim |-> 0],
    [tgt |-> "mixed3b", callee |-> "mixed3b", args |-> <<"mixed3b_1x1", "mixed3b_3x3", "mixed3b_5x5", "mixed3b_pool_reduce">>, kernel |-> 0, stride |-> 0, dim |-> 1],
    [tgt |-> "maxpool4_pad", callee |-> "F.pad", args |-> <<"mixed3b">>, kernel |-> 0, stride |-> 0, dim |-> 0],
    [tgt |-> "maxpool4", callee |-> "maxpool4", args |-> <<"maxpool4_pad">>, kernel |-> 3, stride |-> 2, dim |-> 0],
    [tgt |-> "mixed4a_1x1_pre_relu_conv", callee |-> "mixed4a_1x1_pre_relu_conv", args |-> <<"maxpool4">>, kernel |-> 0, stride |-> 0, dim |-> 0],
    [tgt |-> "mixed4a_3x3_bottleneck_pre_relu_conv", callee |-> "mixed4a_3x3_bottleneck_pre_relu_conv", args |-> <<"maxpool4">>, kernel |-> 0, stride |-> 0, dim |-> 0],
    [tgt |-> "mixed4a_5x5_bottleneck_pre_relu_conv", callee |-> "mixed4a_5x5_bottleneck_pre_relu_conv", args |-> <<"maxpool4">>, kernel |-> 0, stride |-> 0, dim |-> 0],
    [tgt |-> "mixed4a_pool_pad", callee |-> "F.pad", args |-> <<"maxpool4">>, kernel |-> 0, stride |-> 0, dim |-> 0],
    [tgt |-> "mixed4a_pool", callee |-> "mixed4a_pool", args |-> <<"mixed4a_pool_pad">>, kernel |-> 3, stride |-> 1, dim |-> 0],
    [tgt |-> "mixed4a_1x1", callee |-> "mixed4a_1x1", args |-> <<"mixed4a_1x1_pre_relu_conv">>, kernel |-> 0, stride |-> 0, dim |-> 0],
    [tgt |-> "mixed4a_3x3_bottleneck", callee |-> "mixed4a_3x3_bottleneck", args |-> <<"mixed4a_3x3_bottleneck_pre_relu_conv">>, kernel |-> 0, stride |-> 0, dim |-> 0],
    [tgt |-> "mixed4a_5x5_bottleneck", callee |-> "mixed4a_5x5_bottleneck", args |-> <<"mixed4a_5x5_bottleneck_pre_relu_conv">>, kernel |-> 0, stride |-> 0, dim |-> 0],
    [tgt |-> "mixed4a_pool_reduce_pre_relu_conv", callee |-> "mixed4a_pool_reduce_pre_relu_conv", args |-> <<"mixed4a_pool">>, kernel |-> 0, stride |-> 0, dim |-> 0],
    [tgt |-> "mixed4a_3x3_pre_relu_conv_pad", callee |-> "F.pad", args |-> <<"mixed4a_3x3_bottleneck">>, kernel |-> 0, stride |-> 0, dim |-> 0],
    [tgt |-> "mixed4a_3x3_pre_relu_conv", callee |-> "mixed4a_3x3_pre_relu_conv", args |-> <<"mixed4a_3x3_pre_relu_conv_pad">>, kernel |-> 0, stride |-> 0, dim |-> 0],
    [tgt |-> "mixed4a_5x5_pre_relu_conv_pad", callee |-> "F.pad", args |-> <<"mixed4a_5x5_bottleneck">>, kernel |-> 0, stride |-> 0, dim |-> 0],
    [tgt |-> "mixed4a_5x5_pre_relu_conv", callee |-> "mixed4a_5x5_pre_relu_conv", args |-> <<"mixed4a_5x5_pre_relu_conv_pad">>, kernel |-> 0, stride |-> 0, dim |-> 0],
    [tgt |-> "mixed4a_pool_reduce", callee |-> "mixed4a_pool_reduce", args |-> <<"mixed4a_pool_reduce_pre_relu_conv">>, kernel |-> 0, stride |-> 0, dim |-> 0],
    [tgt |-> "mixed4a_3x3", callee |-> "mixed4a_3x3", args |-> <<"mixed4a_3x3_pre_relu_conv">>, kernel |-> 0, stride |-> 0, dim |-> 0],
    [tgt |-> "mixed4a_5x5", callee |-> "mixed4a_5x5", args |-> <<"mixed4a_5x5_pre_relu_conv">>, kernel |-> 0, stride |-> 0, dim |-> 0],
    [tgt |-> "mixed4a", callee |-> "mixed4a", args |-> <<"mixed4a_1x1", "mixed4a_3x3", "mixed4a_5x5", "mixed4a_pool_reduce">>, kernel |-> 0, stride |-> 0, dim |-> 1],
    [tgt |-> "mixed4b_1x1_pre_relu_conv", callee |-> "mixed4b_1x1_pre_relu_conv", args |-> <<"mixed4a">>, kernel |-> 0, stride |-> 0, dim |-> 0],
    [tgt |-> "mixed4b_3x3_bottleneck_pre_relu_conv", callee |-> "mixed4b_3x3_bottleneck_pre_relu_conv", args |-> <<"mixed4a">>, kernel |-> 0, stride |-> 0, dim |-> 0],
    [tgt |-> "mixed4b_5x5_bottleneck_pre_relu_conv", callee |-> "mixed4b_5x5_bottleneck_pre_relu_conv", args |-> <<"mixed4a">>, kernel |-> 0, stride |-> 0, dim |-> 0],
    [tgt |-> "mixed4b_pool_pad", callee |-> "F.pad", args |-> <<"mixed4a">>, kernel |-> 0, stride |-> 0, dim |-> 0],
    [tgt |-> "mixed4b_pool", callee |-> "mixed4b_pool", args |-> <<"mixed4b_pool_pad">>, kernel |-> 3, stride |-> 1, dim |-> 0],
    [tgt |-> "mixed4b_1x1", callee |-> "mixed4b_1x1", args |-> <<"mixed4b_1x1_pre_relu_conv">>, kernel |-> 0, stride |-> 0, dim |-> 0],
    [tgt |-> "mixed4b_3x3_bottleneck", callee |-> "mixed4b_3x3_bottleneck", args |-> <<"mixed4b_3x3_bottleneck_pre_relu_conv">>, kernel |-> 0, stride |-> 0, dim |-> 0],
    [tgt |-> "mixed4b_5x5_bottleneck", callee |-> "mixed4b_5x5_bottleneck", args |-> <<"mixed4b_5x5_bottleneck_pre_relu_conv">>, kernel |-> 0, stride |-> 0, dim |-> 0],
    [tgt |-> "mixed4b_pool_reduce_pre_relu_conv", callee |-> "mixed4b_pool_reduce_pre_relu_conv", args |-> <<"mixed4b_pool">>, kernel |-> 0, stride |-> 0, dim |-> 0],
    [tgt |-> "mixed4b_3x3_pre_relu_conv_pad", callee |-> "F.pad", args |-> <<"mixed4b_3x3_bottleneck">>, kernel |-> 0, stride |-> 0, dim |-> 0],
    [tgt |-> "mixed4b_3x3_pre_relu_conv", callee |-> "mixed4b_3x3_pre_relu_conv", args |-> <<"mixed4b_3x3_pre_relu_conv_pad">>, kernel |-> 0, stride |-> 0, dim |-> 0],
    [tgt |-> "mixed4b_5x5_pre_relu_conv_pad", callee |-> "F.pad", args |-> <<"mixed4b_5x5_bottleneck">>, kernel |-> 0, stride |-> 0, dim |-> 0],
    [tgt |-> "mixed4b_5x5_pre_relu_conv", callee |-> "mixed4b_5x5_pre_relu_conv", args |-> <<"mixed4b_5x5_pre_relu_conv_pad">>, kernel |-> 0, stride |-> 0, dim |-> 0],
    [tgt |-> "mixed4b_pool_reduce", callee |-> "mixed4b_pool_reduce", args |-> <<"mixed4b_pool_reduce_pre_relu_conv">>, kernel |-> 0, stride |-> 0, dim |-> 0],
    [tgt |-> "mixed4b_3x3", callee |-> "mixed4b_3x3", args |-> <<"mixed4b_3x3_pre_relu_conv">>, kernel |-> 0, stride |-> 0, dim |-> 0],
    [tgt |-> "mixed4b_5x5", callee |-> "mixed4b_5x5", args |-> <<"mixed4b_5x5_pre_relu_conv">>, kernel |-> 0, stride |-> 0, dim |-> 0],
    [tgt |-> "mixed4b", callee |-> "mixed4b", args |-> <<"mixed4b_1x1", "mixed4b_3x3", "mixed4b_5x5", "mixed4b_pool_reduce">>, kernel |-> 0, stride |-> 0, dim |-> 1],
    [tgt |-> "mixed4c_1x1_pre_relu_conv", callee |-> "mixed4c_1x1_pre_relu_conv", args |-> <<"mixed4b">>, kernel |-> 0, stride |-> 0, dim |-> 0],
    [tgt |-> "mixed4c_3x3_bottleneck_pre_relu_conv", callee |-> "mixed4c_3x3_bottleneck_pre_relu_conv", args |-> <<"mixed4b">>, kernel |-> 0, stride |-> 0, dim |-> 0],
    [tgt |-> "mixed4c_5x5_bottleneck_pre_relu_conv", callee |-> "mixed4c_5x5_bottleneck_pre_relu_conv", args |-> <<"mixed4b">>, kernel |-> 0, stride |-> 0, dim |-> 0],
    [tgt |-> "mixed4c_pool_pad", callee |-> "F.pad", args |-> <<"mixed4b">>, kernel |-> 0, stride |-> 0, dim |-> 0],
    [tgt |-> "mixed4c_pool", callee |-> "mixed4c_pool", args |-> <<"mixed4c_pool_pad">>, kernel |-> 3, stride |-> 1, dim |-> 0],
    [tgt |-> "mixed4c_1x1", callee |-> "mixed4c_1x1", args |-> <<"mixed4c_1x1_pre_relu_conv">>, kernel |-> 0, stride |-> 0, dim |-> 0],
    [tgt |-> "mixed4c_3x3_bottleneck", callee |-> "mixed4c_3x3_bottleneck", args |-> <<"mixed4c_3x3_bottleneck_pre_relu_conv">>, kernel |-> 0, stride |-> 0, dim |-> 0],
    [tgt |-> "mixed4c_5x5_bottleneck", callee |-> "mixed4c_5x5_bottleneck", args |-> <<"mixed4c_5x5_bottleneck_pre_relu_conv">>, kernel |-> 0, stride |-> 0, dim |-> 0],
    [tgt |-> "mixed4c_pool_reduce_pre_relu_conv", callee |-> "mixed4c_pool_reduce_pre_relu_conv", args |-> <<"mixed4c_pool">>, kernel |-> 0, stride |-> 0, dim |-> 0],
    [tgt |-> "mixed4c_3x3_pre_relu_conv_pad", callee |-> "F.pad", args |-> <<"mixed4c_3x3_bottleneck">>, kernel |-> 0, stride |-> 0, dim |-> 0],
    [tgt |-> "mixed4c_3x3_pre_relu_conv", callee |-> "mixed4c_3x3_pre_relu_conv", args |-> <<"mixed4c_3x3_pre_relu_conv_pad">>, kernel |-> 0, stride |-> 0, dim |-> 0],
    [tgt |-> "mixed4c_5x5_pre_relu_conv_pad", callee |-> "F.pad", args |-> <<"mixed4c_5x5_bottleneck">>, kernel |-> 0, stride |-> 0, dim |-> 0],
    [tgt |-> "mixed4c_5x5_pre_relu_conv", callee |-> "mixed4c_5x5_pre_relu_conv", args |-> <<"mixed4c_5x5_pre_relu_conv_pad">>, kernel |-> 0, stride |-> 0, dim |-> 0],
    [tgt |-> "mixed4c_pool_reduce", callee |-> "mixed4c_pool_reduce", args |-> <<"mixed4c_pool_reduce_pre_relu_conv">>, kernel |-> 0, stride |-> 0, dim |-> 0],
    [tgt |-> "mixed4c_3x3", callee |-> "mixed4c_3x3", args |-> <<"mixed4c_3x3_pre_relu_conv">>, kernel |-> 0, stride |-> 0, dim |-> 0],
    [tgt |-> "mixed4c_5x5", callee |-> "mixed4c_5x5", args |-> <<"mixed4c_5x5_pre_relu_conv">>, kernel |-> 0, stride |-> 0, dim |-> 0],
    [tgt |-> "mixed4c", callee |-> "mixed4c", args |-> <<"mixed4c_1x1", "mixed4c_3x3", "mixed4c_5x5", "mixed4c_pool_reduce">>, kernel |-> 0, stride |-> 0, dim |-> 1],
    [tgt |-> "mixed4d_1x1_pre_relu_conv", callee |-> "mixed4d_1x1_pre_relu_conv", args |-> <<"mixed4c">>, kernel |-> 0, stride |-> 0, dim |-> 0],
    [tgt |-> "mixed4d_3x3_bottleneck_pre_relu_conv", callee |-> "mixed4d_3x3_bottleneck_pre_relu_conv", args |-> <<"mixed4c">>, kernel |-> 0, stride |-> 0, dim |-> 0],
    [tgt |-> "mixed4d_5x5_bottleneck_pre_relu_conv", callee |-> "mixed4d_5x5_bottleneck_pre_relu_conv", args |-> <<"mixed4c">>, kernel |-> 0, stride |-> 0, dim |-> 0],
    [tgt |-> "mixed4d_pool_pad", callee |-> "F.pad", args |-> <<"mixed4c">>, kernel |-> 0, stride |-> 0, dim |-> 0],
    [tgt |-> "mixed4d_pool", callee |-> "mixed4d_pool", args |-> <<"mixed4d_pool_pad">>, kernel |-> 3, stride |-> 1, dim |-> 0],
    [tgt |-> "mixed4d_1x1", callee |-> "mixed4d_1x1", args |-> <<"mixed4d_1x1_pre_relu_conv">>, kernel |-> 0, stride |-> 0, dim |-> 0],
    [tgt |-> "mixed4d_3x3_bottleneck", callee |-> "mixed4d_3x3_bottleneck", args |-> <<"mixed4d_3x3_bottleneck_pre_relu_conv">>, kernel |-> 0, stride |-> 0, dim |-> 0],
    [tgt |-> "mixed4d_5x5_bottleneck", callee |-> "mixed4d_5x5_bottleneck", args |-> <<"mixed4d_5x5_bottleneck_pre_relu_conv">>, kernel |-> 0, stride |-> 0, dim |-> 0],
    [tgt |-> "mixed4d_pool_reduce_pre_relu_conv", callee |-> "mixed4d_pool_reduce_pre_relu_conv", args |-> <<"mixed4d_pool">>, kernel |-> 0, stride |-> 0, dim |-> 0],
    [tgt |-> "mixed4d_3x3_pre_relu_conv_pad", callee |-> "F.pad", args |-> <<"mixed4d_3x3_bottleneck">>, kernel |-> 0, stride |-> 0, dim |-> 0],
    [tgt |-> "mixed4d_3x3_pre_relu_conv", callee |-> "mixed4d_3x3_pre_relu_conv", args |-> <<"mixed4d_3x3_pre_relu_conv_pad">>, kernel |-> 0, stride |-> 0, dim |-> 0],
    [tgt |-> "mixed4d_5x5_pre_relu_conv_pad", callee |-> "F.pad", args |-> <<"mixed4d_5x5_bottleneck">>, kernel |-> 0, stride |-> 0, dim |-> 0],
    [tgt |-> "mixed4d_5x5_pre_relu_conv", callee |-> "mixed4d_5x5_pre_relu_conv", args |-> <<"mixed4d_5x5_pre_relu_conv_pad">>, kernel |-> 0, stride |-> 0, dim |-> 0],
    [tgt |-> "mixed4d_pool_reduce", callee |-> "mixed4d_pool_reduce", args |-> <<"mixed4d_pool_reduce_pre_relu_conv">>, kernel |-> 0, stride |-> 0, dim |-> 0],
    [tgt |-> "mixed4d_3x3", callee |-> "mixed4d_3x3", args |-> <<"mixed4d_3x3_pre_relu_conv">>, kernel |-> 0, stride |-> 0, dim |-> 0],
    [tgt |-> "mixed4d_5x5", callee |-> "mixed4d_5x5", args |-> <<"mixed4d_5x5_pre_relu_conv">>, kernel |-> 0, stride |-> 0, dim |-> 0],
    [tgt |-> "mixed4d", callee |-> "mixed4d", args |-> <<"mixed4d_1x1", "mixed4d_3x3", "mixed4d_5x5", "mixed4d_pool_reduce">>, kernel |-> 0, stride |-> 0, dim |-> 1],
    [tgt |-> "mixed4e_1x1_pre_relu_conv", callee |-> "mixed4e_1x1_pre_relu_conv", args |-> <<"mixed4d">>, kernel |-> 0, stride |-> 0, dim |-> 0],
    [tgt |-> "mixed4e_3x3_bottleneck_pre_relu_conv", callee |-> "mixed4e_3x3_bottleneck_pre_relu_conv", args |-> <<"mixed4d">>, kernel |-> 0, stride |-> 0, dim |-> 0],
    [tgt |-> "mixed4e_5x5_bottleneck_pre_relu_conv", callee |-> "mixed4e_5x5_bottleneck_pre_relu_conv", args |-> <<"mixed4d">>, kernel |-> 0, stride |-> 0, dim |-> 0],
    [tgt |-> "mixed4e_pool_pad", callee |-> "F.pad", args |-> <<"mixed4d">>, kernel |-> 0, stride |-> 0, dim |-> 0],
    [tgt |-> "mixed4e_pool", callee |-> "mixed4e_pool", args |-> <<"mixed4e_pool_pad">>, kernel |-> 3, stride |-> 1, dim |-> 0],
    [tgt |-> "mixed4e_1x1", callee |-> "mixed4e_1x1", args |-> <<"mixed4e_1x1_pre_relu_conv">>, kernel |-> 0, stride |-> 0, dim |-> 0],
    [tgt |-> "mixed4e_3x3_bottleneck", callee |-> "mixed4e_3x3_bottleneck", args |-> <<"mixed4e_3x3_bottleneck_pre_relu_conv">>, kernel |-> 0, stride |-> 0, dim |-> 0],
    [tgt |-> "mixed4e_5x5_bottleneck", callee |-> "mixed4e_5x5_bottleneck", args |-> <<"mixed4e_5x5_bottleneck_pre_relu_conv">>, kernel |-> 0, stride |-> 0, dim |-> 0],
    [tgt |-> "mixed4e_pool_reduce_pre_relu_conv", callee |-> "mixed4e_pool_reduce_pre_relu_conv", args |-> <<"mixed4e_pool">>, kernel |-> 0, stride |-> 0, dim |-> 0],
    [tgt |-> "mixed4e_3x3_pre_relu_conv_pad", callee |-> "F.pad", args |-> <<"mixed4e_3x3_bottleneck">>, kernel |-> 0, stride |-> 0, dim |-> 0],
    [tgt |-> "mixed4e_3x3_pre_relu_conv", callee |-> "mixed4e_3x3_pre_relu_conv", args |-> <<"mixed4e_3x3_pre_relu_conv_pad">>, kernel |-> 0, stride |-> 0, dim |-> 0],
    [tgt |-> "mixed4e_5x5_pre_relu_conv_pad", callee |-> "F.pad", args |-> <<"mixed4e_5x5_bottleneck">>, kernel |-> 0, stride |-> 0, dim |-> 0],
    [tgt |-> "mixed4e_5x5_pre_relu_conv", callee |-> "mixed4e_5x5_pre_relu_conv", args |-> <<"mixed4e_5x5_pre_relu_conv_pad">>, kernel |-> 0, stride |-> 0, dim |-> 0],
    [tgt |-> "mixed4e_pool_reduce", callee |-> "mixed4e_pool_reduce", args |-> <<"mixed4e_pool_reduce_pre_relu_conv">>, kernel |-> 0, stride |-> 0, dim |-> 0],
    [tgt |-> "mixed4e_3x3", callee |-> "mixed4e_3x3", args |-> <<"mixed4e_3x3_pre_relu_conv">>, kernel |-> 0, stride |-> 0, dim |-> 0],
    [tgt |-> "mixed4e_5x5", callee |-> "mixed4e_5x5", args |-> <<"mixed4e_5x5_pre_relu_conv">>, kernel |-> 0, stride |-> 0, dim |-> 0],
    [tgt |-> "mixed4e", callee |-> "mixed4e", args |-> <<"mixed4e_1x1", "mixed4e_3x3", "mixed4e_5x5", "mixed4e_pool_reduce">>, kernel |-> 0, stride |-> 0, dim |-> 1],
    [tgt |-> "maxpool10_pad", callee |-> "F.pad", args |-> <<"mixed4e">>, kernel |-> 0, stride |-> 0, dim |-> 0],
    [tgt |-> "maxpool10", callee |-> "maxpool10", args |-> <<"maxpool10_pad">>, kernel |-> 3, stride |-> 2, dim |-> 0],
    [tgt |-> "mixed5a_1x1_pre_relu_conv", callee |-> "mixed5a_1x1_pre_relu_conv", args |-> <<"maxpool10">>, kernel |-> 0, stride |-> 0, dim |-> 0],
    [tgt |-> "mixed5a_3x3_bottleneck_pre_relu_conv", callee |-> "mixed5a_3x3_bottleneck_pre_relu_conv", args |-> <<"maxpool10">>, kernel |-> 0, stride |-> 0, dim |-> 0],
    [tgt |-> "mixed5a_5x5_bottleneck_pre_relu_conv", callee |-> "mixed5a_5x5_bottleneck_pre_relu_conv", args |-> <<"maxpool10">>, kernel |-> 0, stride |-> 0, dim |-> 0],
    [tgt |-> "mixed5a_pool_pad", callee |-> "F.pad", args |-> <<"maxpool10">>, kernel |-> 0, stride |-> 0, dim |-> 0],
    [tgt |-> "mixed5a_pool", callee |-> "mixed5a_pool", args |-> <<"mixed5a_pool_pad">>, kernel |-> 3, stride |-> 1, dim |-> 0],
    [tgt |-> "mixed5a_1x1", callee |-> "mixed5a_1x1", args |-> <<"mixed5a_1x1_pre_relu_conv">>, kernel |-> 0, stride |-> 0, dim |-> 0],
    [tgt |-> "mixed5a_3x3_bottleneck", callee |-> "mixed5a_3x3_bottleneck", args |-> <<"mixed5a_3x3_bottleneck_pre_relu_conv">>, kernel |-> 0, stride |-> 0, dim |-> 0],
    [tgt |-> "mixed5a_5x5_bottleneck", callee |-> "mixed5a_5x5_bottleneck", args |-> <<"mixed5a_5x5_bottleneck_pre_relu_conv">>, kernel |-> 0, stride |-> 0, dim |-> 0],
    [tgt |-> "mixed5a_pool_reduce_pre_relu_conv", callee |-> "mixed5a_pool_reduce_pre_relu_conv", args |-> <<"mixed5a_pool">>, kernel |-> 0, stride |-> 0, dim |-> 0],
    [tgt |-> "mixed5a_3x3_pre_relu_conv_pad", callee |-> "F.pad", args |-> <<"mixed5a_3x3_bottleneck">>, kernel |-> 0, stride |-> 0, dim |-> 0],
    [tgt |-> "mixed5a_3x3_pre_relu_conv", callee |-> "mixed5a_3x3_pre_relu_conv", args |-> <<"mixed5a_3x3_pre_relu_conv_pad">>, kernel |-> 0, stride |-> 0, dim |-> 0],
    [tgt |-> "mixed5a_5x5_pre_relu_conv_pad", callee |-> "F.pad", args |-> <<"mixed5a_5x5_bottleneck">>, kernel |-> 0, stride |-> 0, dim |-> 0],
    [tgt |-> "mixed5a_5x5_pre_relu_conv", callee |-> "mixed5a_5x5_pre_relu_conv", args |-> <<"mixed5a_5x5_pre_relu_conv_pad">>, kernel |-> 0, stride |-> 0, dim |-> 0],
    [tgt |-> "mixed5a_pool_reduce", callee |-> "mixed5a_pool_reduce", args |-> <<"mixed5a_pool_reduce_pre_relu_conv">>, kernel |-> 0, stride |-> 0, dim |-> 0],
    [tgt |-> "mixed5a_3x3", callee |-> "mixed5a_3x3", args |-> <<"mixed5a_3x3_pre_relu_conv">>, kernel |-> 0, stride |-> 0, dim |-> 0],
    [tgt |-> "mixed5a_5x5", callee |-> "mixed5a_5x5", args |-> <<"mixed5a_5x5_pre_relu_conv">>, kernel |-> 0, stride |-> 0, dim |-> 0],
    [tgt |-> "mixed5a", callee |-> "mixed5a", args |-> <<"mixed5a_1x1", "mixed5a_3x3", "mixed5a_5x5", "mixed5a_pool_reduce">>, kernel |-> 0, stride |-> 0, dim |-> 1],
    [tgt |-> "mixed5b_1x1_pre_relu_conv", callee |-> "mixed5b_1x1_pre_relu_conv", args |-> <<"mixed5a">>, kernel |-> 0, stride |-> 0, dim |-> 0],
    [tgt |-> "mixed5b_3x3_bottleneck_pre_relu_conv", callee |-> "mixed5b_3x3_bottleneck_pre_relu_conv", args |-> <<"mixed5a">>, kernel |-> 0, stride |-> 0, dim |-> 0],
    [tgt |-> "mixed5b_5x5_bottleneck_pre_relu_conv", callee |-> "mixed5b_5x5_bottleneck_pre_relu_conv", args |-> <<"mixed5a">>, kernel |-> 0, stride |-> 0, dim |-> 0],
    [tgt |-> "mixed5b_pool_pad", callee |-> "F.pad", args |-> <<"mixed5a">>, kernel |-> 0, stride |-> 0, dim |-> 0],
    [tgt |-> "mixed5b_pool", callee |-> "mixed5b_pool", args |-> <<"mixed5b_pool_pad">>, kernel |-> 3, stride |-> 1, dim |-> 0],
    [tgt |-> "mixed5b_1x1", callee |-> "mixed5b_1x1", args |-> <<"mixed5b_1x1_pre_relu_conv">>, kernel |-> 0, stride |-> 0, dim |-> 0],
    [tgt |-> "mixed5b_3x3_bottleneck", callee |-> "mixed5b_3x3_bottleneck", args |-> <<"mixed5b_3x3_bottleneck_pre_relu_conv">>, kernel |-> 0, stride |-> 0, dim |-> 0],
    [tgt |-> "mixed5b_5x5_bottleneck", callee |-> "mixed5b_5x5_bottleneck", args |-> <<"mixed5b_5x5_bottleneck_pre_relu_conv">>, kernel |-> 0, stride |-> 0, dim |-> 0],
    [tgt |-> "mixed5b_pool_reduce_pre_relu_conv", callee |-> "mixed5b_pool_reduce_pre_relu_conv", args |-> <<"mixed5b_pool">>, kernel |-> 0, stride |-> 0, dim |-> 0],
    [tgt |-> "mixed5b_3x3_pre_relu_conv_pad", callee |-> "F.pad", args |-> <<"mixed5b_3x3_bottleneck">>, kernel |-> 0, stride |-> 0, dim |-> 0],
    [tgt |-> "mixed5b_3x3_pre_relu_conv", callee |-> "mixed5b_3x3_pre_relu_conv", args |-> <<"mixed5b_3x3_pre_relu_conv_pad">>, kernel |-> 0, stride |-> 0, dim |-> 0],
    [tgt |-> "mixed5b_5x5_pre_relu_conv_pad", callee |-> "F.pad", args |-> <<"mixed5b_5x5_bottleneck">>, kernel |-> 0, stride |-> 0, dim |-> 0],
    [tgt |-> "mixed5b_5x5_pre_relu_conv", callee |-> "mixed5b_5x5_pre_relu_conv", args |-> <<"mixed5b_5x5_pre_relu_conv_pad">>, kernel |-> 0, stride |-> 0, dim |-> 0],
    [tgt |-> "mixed5b_pool_reduce", callee |-> "mixed5b_pool_reduce", args |-> <<"mixed5b_pool_reduce_pre_relu_conv">>, kernel |-> 0, stride |-> 0, dim |-> 0],
    [tgt |-> "mixed5b_3x3", callee |-> "mixed5b_3x3", args |-> <<"mixed5b_3x3_pre_relu_conv">>, kernel |-> 0, stride |-> 0, dim |-> 0],
    [tgt |-> "mixed5b_5x5", callee |-> "mixed5b_5x5", args |-> <<"mixed5b_5x5_pre_relu_conv">>, kernel |-> 0, stride |-> 0, dim |-> 0],
    [tgt |-> "mixed5b", callee |-> "mixed5b", args |-> <<"mixed5b_1x1", "mixed5b_3x3", "mixed5b_5x5", "mixed5b_pool_reduce">>, kernel |-> 0, stride |-> 0, dim |-> 1],
    [tgt |-> "avgpool0", callee |-> "F.avg_pool2d", args |-> <<"mixed5b">>, kernel |-> 7, stride |-> 1, dim |-> 0],
    [tgt |-> "avgpool0_reshape", callee |-> "torch.reshape", args |-> <<"avgpool0">>, kernel |-> 0, stride |-> 0, dim |-> 1024],
    [tgt |-> "softmax2_pre_activation_matmul", callee |-> "softmax2_pre_activation_matmul", args |-> <<"avgpool0_reshape">>, kernel |-> 0, stride |-> 0, dim |-> 0],
    [tgt |-> "softmax2", callee |-> "softmax2", args |-> <<"softmax2_pre_activation_matmul">>, kernel |-> 0, stride |-> 0, dim |-> 0]
>>

-----------------------------------------------------------------------------
(* InceptionV1.forward, executed one assignment at a time.  A tensor is     *)
(* abstracted to where it comes from: src is the tensor it was last         *)
(* concatenated into being (or "x", the input), ops the operations applied  *)
(* since then, chain the names of the tensors those operations produced,    *)
(* and ch its number of channels.                                           *)

\* the channels of the input image x range over 1 .. MaxInputChannels
MaxInputChannels == 3

OpRec(name, k, s) == [op |-> name, k |-> k, s |-> s]

InputTensor(ch) == [src |-> "x", ops |-> <<>>, chain |-> <<>>, ch |-> ch]

\* the result of a one-input operation applied to tensor t
Applied(t, tgt, oprec, ch) ==
    [src |-> t.src, ops |-> Append(t.ops, oprec), chain |-> Append(t.chain, tgt), ch |-> ch]

\* the mutant of SumCh: the result keeps the channels of its first input
SumChFirst(ts) == IF ts = <<>> THEN 0 ELSE ts[1].ch

\* torch.cat(tensor_list, dim=1): the channels of the inputs add up
RECURSIVE SumCh(_)
SumCh(ts) == IF ts = <<>> THEN 0 ELSE ts[1].ch + SumCh(Tail(ts))

\* the mutant of CatInputs: the tensor list concatenated in reverse order
CatInputsReversed(ts) == [i \in 1..Len(ts) |-> ts[Len(ts) + 1 - i]]

\* CatLayer.forward(tensor_list, dim): the tensors torch.cat joins, in order
CatInputs(ts) == ts

\* the tensor a module call reads: its first argument
ConvInput(env, stmt) == env[stmt.args[1]]

\* whether executing stmt in env raises (a convolution or the linear layer
\* given a tensor whose channels are not its in_channels / in_features)
StmtRaises(env, stmt) ==
    /\ stmt.callee \in DOMAIN InitModules
    /\ InitModules[stmt.callee].in_channels # ConvInput(env, stmt).ch

\* the tensor an assignment of forward binds to its target
StmtValue(env, stmt) ==
    LET c == stmt.callee
        t == env[stmt.args[1]]
    IN  CASE c = "F.pad" -> Applied(t, stmt.tgt, OpRec("pad", 0, 0), t.ch)
          [] c = "F.local_response_norm" -> Applied(t, stmt.tgt, OpRec("lrn", 0, 0), t.ch)
          [] c = "F.avg_pool2d" -> Applied(t, stmt.tgt, OpRec("avgpool", stmt.kernel, stmt.stride), t.ch)
          [] c = "torch.reshape" -> Applied(t, stmt.tgt, OpRec("reshape", 0, 0), stmt.dim)
          [] c \in DOMAIN InitModules ->
                LET m == InitModules[c]
                IN  Applied(ConvInput(env, stmt), stmt.tgt,
                            OpRec(m.cls, m.kernel_size, m.stride), m.out_channels)
          [] c \in ReluAttrs -> Applied(t, stmt.tgt, OpRec("relu", 0, 0), t.ch)
          [] c \in MaxPoolAttrs ->
                Applied(t, stmt.tgt, OpRec("maxpool", stmt.kernel, stmt.stride), t.ch)
          [] c \in SoftMaxAttrs -> Applied(t, stmt.tgt, OpRec("softmax", 0, 0), t.ch)
          [] c \in CatAttrs ->
                [src |-> stmt.tgt, ops |-> <<>>, chain |-> <<>>,
                 ch |-> SumCh([i \in 1..Len(stmt.args) |-> env[stmt.args[i]]])]

\* what a CatLayer call adds to the record of concatenations
CatEvent(env, stmt) ==
    [name |-> stmt.tgt, dim |-> stmt.dim,
     branches |-> CatInputs([i \in 1..Len(stmt.args) |-> env[stmt.args[i]]])]

FwdIdle ==
    /\ fwd_pc = 0
    /\ fwd_env = <<>>
    /\ fwd_cats = <<>>
    /\ fwd_status = "idle"

\* forward(x) is entered with an image of 1 .. MaxInputChannels channels
FwdInit ==
    /\ fwd_pc = 1
    /\ \E ch \in 1..MaxInputChannels : fwd_env = ("x" :> InputTensor(ch))
    /\ fwd_cats = <<>>
    /\ fwd_status = "running"

\* the assignment at fwd_pc is executed
ForwardStep ==
    /\ fwd_status = "running"
    /\ fwd_pc <= Len(ForwardStmts)
    /\ LET stmt == ForwardStmts[fwd_pc]
       IN  IF StmtRaises(fwd_env, stmt)
           THEN /\ fwd_status' = "RuntimeError"
                /\ UNCHANGED <<fwd_pc, fwd_env, fwd_cats>>
           ELSE /\ fwd_env' = (stmt.tgt :> StmtValue(fwd_env, stmt)) @@ fwd_env
                /\ fwd_cats' = IF stmt.callee \in CatAttrs
                               THEN Append(fwd_cats, CatEvent(fwd_env, stmt))
                               ELSE fwd_cats
                /\ fwd_pc' = fwd_pc + 1
                /\ UNCHANGED fwd_status

\* return softmax2
ForwardReturn ==
    /\ fwd_status = "running"
    /\ fwd_pc = Len(ForwardStmts) + 1
    /\ fwd_status' = "returned"
    /\ UNCHANGED <<fwd_pc, fwd_env, fwd_cats>>

-----------------------------------------------------------------------------
(* save_images and load_images (src/torchlight/io.py).  A string is the     *)
(* sequence of its characters.  The file system maps each path that exists  *)
(* to what the file holds: [kind, rank, parts], parts being the element     *)
(* data of the imgs (frames) in it and rank the rank of the stored array  *)
(* (npy) or of the one image or frame (png, gif, mp4).                      *)

\* longest list of images handed to save_images
MaxImages == 2
\* a save path is made of at most MaxSegs segments
MaxSegs == 3
\* longest list of paths handed to load_images
MaxPaths == 2

DOT == "."

EXT_NPY == <<".", "n", "p", "y">>

EXT_PNG == <<".", "p", "n", "g">>

EXT_GIF == <<".", "g", "i", "f">>

EXT_MP4 == <<".", "m", "p", "4">>

\* the text after the last '.', or all of s when it has none: s.split(".")[-1]
RECURSIVE SplitLast(_)
SplitLast(s) ==
    IF s = <<>> THEN <<>>
    ELSE IF s[Len(s)] = DOT THEN <<>>
    ELSE LET rest == SubSeq(s, 1, Len(s) - 1)
         IN  IF \E i \in 1..Len(rest) : rest[i] = DOT
             THEN Append(SplitLast(rest), s[Len(s)])
             ELSE s

\* sub in s
Contains(s, sub) == \E i \in 1..(Len(s) - Len(sub) + 1) : SubSeq(s, i, i + Len(sub) - 1) = sub

\* s.replace(sub, ""): every occurrence removed, scanning from the left
RECURSIVE RemoveAll(_, _)
RemoveAll(s, sub) ==
    IF Len(s) < Len(sub) THEN s
    ELSE IF StartsWith(s, sub) THEN RemoveAll(SubSeq(s, Len(sub) + 1, Len(s)), sub)
    ELSE <<s[1]>> \o RemoveAll(Tail(s), sub)

Digits == <<"0", "1", "2", "3", "4", "5", "6", "7", "8", "9">>

\* str(i) for i >= 0, as f"{i}" formats it
RECURSIVE Str(_)
Str(i) == IF i < 10 THEN <<Digits[i + 1]>> ELSE Append(Str(i \div 10), Digits[(i % 10) + 1])

\* f"{save_path}_{i}.png"
PngName(stem, i) == stem \o <<"_">> \o Str(i) \o EXT_PNG

\* the normalized form of one image, or the exception normalize_array raises
Normalized(image) ==
    LET r == normalize_array(image, None, TRUE)
    IN  [exc |-> r.exc, rank |-> image.rank, data |-> r.data]

\* [normalize_array(image, domain) for image in images] stops at the first
\* image that raises: that exception, or "none"
RECURSIVE FirstRaise(_)
FirstRaise(ns) ==
    IF ns = <<>> THEN "none"
    ELSE IF ns[1].exc # "none" THEN ns[1].exc
    ELSE FirstRaise(Tail(ns))

SameShape(ns) == \A i, j \in 1..Len(ns) : ns[i].rank = ns[j].rank /\ Len(ns[i].data) = Len(ns[j].data)

FileOf(kind, rank, parts) == [kind |-> kind, rank |-> rank, parts |-> parts]

DataOf(ns) == [i \in 1..Len(ns) |-> ns[i].data]

\* the fields of s between its dots: s.split(".")
RECURSIVE Split(_)
Split(s) ==
    IF \A i \in 1..Len(s) : s[i] # DOT THEN <<s>>
    ELSE LET d == CHOOSE i \in 1..Len(s) : s[i] = DOT /\ \A j \in 1..(i - 1) : s[j] # DOT
         IN  <<SubSeq(s, 1, d - 1)>> \o Split(SubSeq(s, d + 1, Len(s)))

\* the mutant of SaveType: the second field is taken for the type, the first
\* when there is no dot
SaveTypeSecondField(path) ==
    IF Len(Split(path)) > 1 THEN Split(path)[2] ELSE Split(path)[1]

\* save_type = save_path.split(".")[-1]
SaveType(path) == SplitLast(path)

\* the png branch of save_images: the files written, by name
SavePng(ns, path) ==
    LET stem == IF Contains(path, EXT_PNG) THEN RemoveAll(path, EXT_PNG)
                ELSE path
    IN  IF Len(ns) = 1
        THEN (stem \o EXT_PNG) :> FileOf("png", ns[1].rank, <<ns[1].data>>)
        ELSE [name \in {PngName(stem, i - 1) : i \in 1..Len(ns)} |->
                LET i == CHOOSE j \in 1..Len(ns) :
                            /\ PngName(stem, j - 1) = name
                            /\ \A k \in (j + 1)..Len(ns) : PngName(stem, k - 1) # name
                IN  FileOf("png", ns[i].rank, <<ns[i].data>>)]

\* images = [normalize_array(image, domain) for image in images]
NormalizeAll(imgs) == [i \in 1..Len(imgs) |-> Normalized(imgs[i])]

\* save_images(images, save_path), ns being what the normalization of the
\* images gave: the exception raised ("none" if it returns) and the file
\* system afterwards
save_images(ns, path, fs) ==
    LET save_type == SaveType(path)
        Fail(e)   == [exc |-> e, files |-> fs]
        Done(new) == [exc |-> "none", files |-> new @@ fs]
        raised    == FirstRaise(ns)
    IN  IF raised # "none" THEN Fail(raised)
        ELSE IF save_type = <<"n", "p", "y">>
        THEN \* np.stack(images), np.save(save_path, images_array)
             IF Len(ns) = 0 \/ ~SameShape(ns) THEN Fail("ValueError")
             ELSE Done(path :> FileOf("npy", ns[1].rank + 1, DataOf(ns)))
        ELSE IF save_type = <<"p", "n", "g">>
        THEN Done(SavePng(ns, path))
        ELSE IF save_type = <<"m", "p", "4">>
        THEN \* numpy_image_to_video: h, w, _ = images[0].shape
             IF Len(ns) = 0 THEN Fail("IndexError")
             ELSE IF ns[1].rank # 3 THEN Fail("ValueError")
             ELSE Done(path :> FileOf("mp4", 3, DataOf(ns)))
        ELSE IF save_type = <<"g", "i", "f">>
        THEN \* numpy_image_to_gif: images[0].save(filename, save_all=True, ...)
             IF Len(ns) = 0 THEN Fail("IndexError")
             ELSE Done(path :> FileOf("gif", ns[1].rank, DataOf(ns)))
        ELSE Fail("ValueError")

\* load_gif(gif_path): one image per frame, in frame order
load_gif(file) == [i \in 1..Len(file.parts) |-> [rank |-> file.rank, data |-> file.parts[i]]]

RECURSIVE Flatten(_)
Flatten(parts) == IF parts = <<>> THEN <<>> ELSE parts[1] \o Flatten(Tail(parts))

\* the images one .npy file adds: one per image of a 4-dimensional array, the
\* array itself otherwise
LoadNpy(file) ==
    IF file.rank = 4
    THEN [i \in 1..Len(file.parts) |-> [rank |-> 3, data |-> file.parts[i]]]
    ELSE <<[rank |-> file.rank, data |-> Flatten(file.parts)]>>

\* the mutant of Extend: the new images put in front of those loaded so far
ExtendFront(imgs, more) == more \o imgs

\* images.extend(images_) / images.append(image)
Extend(imgs, more) == imgs \o more

\* if isinstance(image_paths, str): image_paths = [image_paths]
AsPathList(arg) ==
    IF arg.is_str THEN <<arg.str>> ELSE arg.list

\* the for loop of load_images over the paths left, images being those loaded
\* so far: the exception raised ("none" if the loop ends) and the images
RECURSIVE LoadLoop(_, _, _)
LoadLoop(paths, imgs, fs) ==
    IF paths = <<>> THEN [exc |-> "none", images |-> imgs]
    ELSE LET path == paths[1]
             supported == \/ EndsWith(path, EXT_NPY)
                          \/ EndsWith(path, EXT_PNG)
                          \/ EndsWith(path, EXT_GIF)
         IN  IF ~supported THEN [exc |-> "ValueError", images |-> <<>>]
             ELSE IF path \notin DOMAIN fs THEN [exc |-> "FileNotFoundError", images |-> <<>>]
             ELSE IF EndsWith(path, EXT_NPY)
                  THEN LoadLoop(Tail(paths), Extend(imgs, LoadNpy(fs[path])), fs)
             ELSE IF EndsWith(path, EXT_PNG)
                  THEN LoadLoop(Tail(paths),
                                Extend(imgs, <<[rank |-> fs[path].rank,
                                                  data |-> fs[path].parts[1]]>>), fs)
             ELSE LoadLoop(Tail(paths), Extend(imgs, load_gif(fs[path])), fs)

\* load_images(image_paths, return_as_numpy): [exc, kind, images]
load_images(arg, as_numpy, fs) ==
    LET r == LoadLoop(AsPathList(arg), <<>>, fs)
    IN  IF r.exc # "none" THEN [exc |-> r.exc, kind |-> "none", images |-> <<>>]
        ELSE IF ~as_numpy THEN [exc |-> "none", kind |-> "list", images |-> r.images]
        ELSE \* np.stack(images)
             IF Len(r.images) = 0 \/ ~SameShape(r.images)
             THEN [exc |-> "ValueError", kind |-> "none", images |-> <<>>]
             ELSE [exc |-> "none", kind |-> "ndarray", images |-> r.images]

-----------------------------------------------------------------------------
(* The inputs tried, and the actions.                                       *)

\* the images handed to save_images: a float colour image, an integer
\* grayscale image (rank 2), a uint8 colour image, and an image with a NaN
ImagePool ==
    { [dtype |-> "float16", rank |-> 3, nan |-> FALSE, data |-> <<F16(0), F16(1)>>],
      [dtype |-> "int64",   rank |-> 2, nan |-> FALSE, data |-> <<7, BigVal>>],
      [dtype |-> "uint8",   rank |-> 3, nan |-> FALSE, data |-> <<3, 4>>],
      [dtype |-> "float16", rank |-> 3, nan |-> TRUE,  data |-> <<F16(0), F16(1)>>] }

PathSegs == { <<"a">>, EXT_PNG, EXT_NPY, EXT_GIF, EXT_MP4, <<".", "t", "x", "t">> }

RECURSIVE PathsOf(_)
PathsOf(n) ==
    IF n = 1 THEN PathSegs
    ELSE PathsOf(n - 1) \cup {p \o s : p \in PathsOf(n - 1), s \in PathSegs}

EmptyFS == <<>>

NoLoadRet == [exc |-> "pending", kind |-> "none", images |-> <<>>]

NoPaths == [is_str |-> FALSE, str |-> <<>>, list |-> <<>>]

IOIdle ==
    /\ files = EmptyFS
    /\ files_before = EmptyFS
    /\ images = <<>>
    /\ save_path = <<>>
    /\ save_exc = "pending"
    /\ image_paths = NoPaths
    /\ return_as_numpy = FALSE
    /\ load_ret = NoLoadRet
    /\ io_pc = "idle"

\* save_images is about to be called on an empty directory
SaveInit ==
    /\ files = EmptyFS
    /\ files_before = EmptyFS
    /\ images \in SeqsUpTo(ImagePool, MaxImages)
    /\ save_path \in PathsOf(MaxSegs)
    /\ save_exc = "pending"
    /\ image_paths = NoPaths
    /\ return_as_numpy = FALSE
    /\ load_ret = NoLoadRet
    /\ io_pc = "save"

\* one call save_images(images, save_path)
SaveImages ==
    /\ io_pc = "save"
    /\ \E ns \in {NormalizeAll(images)} :
       \E r \in {save_images(ns, save_path, files)} :
          /\ save_exc' = r.exc
          /\ files' = r.files
    /\ io_pc' = "saved"
    /\ UNCHANGED <<files_before, images, save_path, image_paths, return_as_numpy, load_ret>>

\* the element data of the images found in files
StoredData == {<<10>>, <<20>>}

PATH_NPY == <<"a">> \o EXT_NPY

PATH_PNG == <<"a">> \o EXT_PNG

PATH_GIF == <<"a">> \o EXT_GIF

PATH_TXT == <<"a", ".", "t", "x", "t">>

NonEmpty(S) == {s \in S : s # <<>>}

\* what a.npy may hold: a stack of colour images (rank 4), or one array of
\* rank 3 (a single colour image, or a stack of grayscale images)
NpyFiles ==
    {FileOf("npy", 4, parts) : parts \in NonEmpty(SeqsUpTo(StoredData, MaxImages))}
    \cup {FileOf("npy", 3, <<d>>) : d \in StoredData}

PngFiles == {FileOf("png", 3, <<d>>) : d \in StoredData}

GifFiles == {FileOf("gif", 2, parts) : parts \in NonEmpty(SeqsUpTo(StoredData, MaxImages))}

\* the file systems load_images is tried on: each of a.npy, a.png, a.gif is
\* there or not
Present(path, contents) == {EmptyFS} \cup {path :> c : c \in contents}

FileSystems ==
    {n @@ p @@ g : n \in Present(PATH_NPY, NpyFiles), p \in Present(PATH_PNG, PngFiles),
                   g \in Present(PATH_GIF, GifFiles)}

LoadPaths == {PATH_NPY, PATH_PNG, PATH_GIF, PATH_TXT}

\* the image_paths arguments tried: one string, or a list of up to MaxPaths
PathArgs ==
    {[is_str |-> TRUE, str |-> p, list |-> <<>>] : p \in LoadPaths}
    \cup {[is_str |-> FALSE, str |-> <<>>, list |-> l] : l \in SeqsUpTo(LoadPaths, MaxPaths)}

\* load_images is about to be called
LoadInit ==
    /\ files \in FileSystems
    /\ files_before = files
    /\ images = <<>>
    /\ save_path = <<>>
    /\ save_exc = "pending"
    /\ image_paths \in PathArgs
    /\ return_as_numpy \in BOOLEAN
    /\ load_ret = NoLoadRet
    /\ io_pc = "load"

\* one call load_images(image_paths, return_as_numpy)
LoadImages ==
    /\ io_pc = "load"
    /\ load_ret' = load_images(image_paths, return_as_numpy, files)
    /\ io_pc' = "loaded"
    /\ UNCHANGED <<files, files_before, images, save_path, save_exc, image_paths,
                   return_as_numpy>>


-----------------------------------------------------------------------------
(* A file written by save_images and read back by load_images.              *)

\* the paths of type npy among the save paths tried
NpyPaths == {p \in PathsOf(MaxSegs) : EndsWith(p, EXT_NPY)}

\* save_images is about to be called with a path ending in ".npy"
RoundTripInit ==
    /\ files = EmptyFS
    /\ files_before = EmptyFS
    /\ images \in SeqsUpTo(ImagePool, MaxImages)
    /\ save_path \in NpyPaths
    /\ save_exc = "pending"
    /\ image_paths = NoPaths
    /\ return_as_numpy = FALSE
    /\ load_ret = NoLoadRet
    /\ io_pc = "save"

\* save_images having returned, load_images(save_path, return_as_numpy) is
\* called on the file it wrote
LoadSaved ==
    /\ io_pc = "saved"
    /\ save_exc = "none"
    /\ \E as_numpy \in BOOLEAN :
       \E arg \in {[is_str |-> TRUE, str |-> save_path, list |-> <<>>]} :
          /\ image_paths' = arg
          /\ return_as_numpy' = as_numpy
          /\ load_ret' = load_images(arg, as_numpy, files)
    /\ io_pc' = "loaded"
    /\ UNCHANGED <<files, files_before, images, save_path, save_exc>>

-----------------------------------------------------------------------------
(* array_to_jsbuffer (src/torchlight/io.py).  An array is [ndim, dtype,     *)
(* elems]: dtype is array.dtype.name as a sequence of characters and elems  *)
(* the elements in memory order, each the sequence of its bytes.            *)

\* arrays of 0 .. MaxNdim dimensions are tried
MaxNdim == 2
\* with at most MaxElems elements
MaxElems == 2

\* the mutant of JS_ARRAY_TYPES: int64 is accepted too
JS_ARRAY_TYPES_Int64 ==
    { <<"i", "n", "t", "8">>, <<"i", "n", "t", "1", "6">>,
      <<"i", "n", "t", "3", "2">>, <<"u", "i", "n", "t", "8">>,
      <<"u", "i", "n", "t", "1", "6">>, <<"u", "i", "n", "t", "3", "2">>,
      <<"f", "l", "o", "a", "t", "3", "2">>, <<"f", "l", "o", "a", "t", "6", "4">>,
      <<"i", "n", "t", "6", "4">> }

JS_ARRAY_TYPES ==
    { <<"i", "n", "t", "8">>, <<"i", "n", "t", "1", "6">>,
      <<"i", "n", "t", "3", "2">>, <<"u", "i", "n", "t", "8">>,
      <<"u", "i", "n", "t", "1", "6">>, <<"u", "i", "n", "t", "3", "2">>,
      <<"f", "l", "o", "a", "t", "3", "2">>, <<"f", "l", "o", "a", "t", "6", "4">> }

\* the dtypes tried that JS_ARRAY_TYPES does not list
OtherDtypes ==
    { <<"f", "l", "o", "a", "t", "1", "6">>, <<"i", "n", "t", "6", "4">>,
      <<"u", "i", "n", "t", "6", "4">>, <<"b", "o", "o", "l">>,
      <<"c", "o", "m", "p", "l", "e", "x", "6", "4">> }

\* array.dtype.itemsize
ItemSize ==
    <<"i", "n", "t", "8">> :> 1 @@
    <<"i", "n", "t", "1", "6">> :> 2 @@
    <<"i", "n", "t", "3", "2">> :> 4 @@
    <<"u", "i", "n", "t", "8">> :> 1 @@
    <<"u", "i", "n", "t", "1", "6">> :> 2 @@
    <<"u", "i", "n", "t", "3", "2">> :> 4 @@
    <<"f", "l", "o", "a", "t", "3", "2">> :> 4 @@
    <<"f", "l", "o", "a", "t", "6", "4">> :> 8 @@
    <<"f", "l", "o", "a", "t", "1", "6">> :> 2 @@
    <<"i", "n", "t", "6", "4">> :> 8 @@
    <<"u", "i", "n", "t", "6", "4">> :> 8 @@
    <<"b", "o", "o", "l">> :> 1 @@
    <<"c", "o", "m", "p", "l", "e", "x", "6", "4">> :> 8

UPPER ==
    "a" :> "A" @@ "b" :> "B" @@ "c" :> "C" @@ "d" :> "D" @@ "e" :> "E" @@ "f" :> "F" @@
    "g" :> "G" @@ "h" :> "H" @@ "i" :> "I" @@ "j" :> "J" @@ "k" :> "K" @@ "l" :> "L" @@
    "m" :> "M" @@ "n" :> "N" @@ "o" :> "O" @@ "p" :> "P" @@ "q" :> "Q" @@ "r" :> "R" @@
    "s" :> "S" @@ "t" :> "T" @@ "u" :> "U" @@ "v" :> "V" @@ "w" :> "W" @@ "x" :> "X" @@
    "y" :> "Y" @@ "z" :> "Z"

\* c.upper() and c.lower() for one character
UpperChar(c) == IF c \in DOMAIN UPPER THEN UPPER[c] ELSE c

LowerChar(c) == IF \E l \in DOMAIN UPPER : UPPER[l] = c
                THEN CHOOSE l \in DOMAIN UPPER : UPPER[l] = c
                ELSE c

\* s.capitalize(): the first character upper-cased, the others lower-cased
Capitalize(s) ==
    [i \in 1..Len(s) |-> IF i = 1 THEN UpperChar(s[i]) ELSE LowerChar(s[i])]

\* array.tobytes(): the bytes of the elements one after the other
RECURSIVE ToBytes(_)
ToBytes(elems) == IF elems = <<>> THEN <<>> ELSE elems[1] \o ToBytes(Tail(elems))

B64_ALPHABET ==
    << "A", "B", "C", "D", "E", "F", "G", "H", "I", "J", "K", "L", "M", "N", "O", "P",
       "Q", "R", "S", "T", "U", "V", "W", "X", "Y", "Z", "a", "b", "c", "d", "e", "f",
       "g", "h", "i", "j", "k", "l", "m", "n", "o", "p", "q", "r", "s", "t", "u", "v",
       "w", "x", "y", "z", "0", "1", "2", "3", "4", "5", "6", "7", "8", "9", "+", "/" >>

B64_PAD == "="

\* the base-64 digit of a 6-bit value
B64Char(v) == B64_ALPHABET[v + 1]

\* base64.b64encode(bytes): three bytes give four digits; a last group of
\* one or two bytes is padded with "="
RECURSIVE B64Encode(_)
B64Encode(bytes) ==
    IF bytes = <<>> THEN <<>>
    ELSE IF Len(bytes) = 1
    THEN LET n == bytes[1] * Pow2(4)
         IN  <<B64Char(n \div Pow2(6)), B64Char(n % Pow2(6)), B64_PAD, B64_PAD>>
    ELSE IF Len(bytes) = 2
    THEN LET n == (bytes[1] * Pow2(8) + bytes[2]) * Pow2(2)
         IN  <<B64Char(n \div Pow2(12)), B64Char((n \div Pow2(6)) % Pow2(6)),
               B64Char(n % Pow2(6)), B64_PAD>>
    ELSE LET n == bytes[1] * Pow2(16) + bytes[2] * Pow2(8) + bytes[3]
         IN  <<B64Char(n \div Pow2(18)), B64Char((n \div Pow2(12)) % Pow2(6)),
               B64Char((n \div Pow2(6)) % Pow2(6)), B64Char(n % Pow2(6))>>
             \o B64Encode(SubSeq(bytes, 4, Len(bytes)))

JsRaised(msg) == [exc |-> "TypeError", msg |-> msg, kind |-> "none", code |-> <<>>]

\* array_to_jsbuffer(array): the exception raised, or the string returned,
\* given by the two texts substituted into its template
array_to_jsbuffer(a) ==
    IF a.ndim # 1
    THEN JsRaised("Only 1d arrays can be converted JS TypedArray.")
    ELSE IF a.dtype \notin JS_ARRAY_TYPES
    THEN JsRaised("Array dtype not supported by JS TypedArray.")
    ELSE LET js_type_name == Capitalize(a.dtype) \o <<"A", "r", "r", "a", "y">>
             data_base64  == B64Encode(ToBytes(a.elems))
         IN  [exc |-> "none", msg |-> "", kind |-> "str",
              code |-> <<data_base64, js_type_name>>]

JsDtypes == JS_ARRAY_TYPES \cup OtherDtypes

\* the byte values elements are made of
ByteVals == {0, 1, 255}

\* the elements tried for a dtype: every byte the same
ElemsOf(dtype) == {[i \in 1..ItemSize[dtype] |-> b] : b \in ByteVals}

\* the arrays handed to array_to_jsbuffer; a 0-dimensional array has one
\* element
JsArrays ==
    UNION {{[ndim |-> n, dtype |-> dt, elems |-> es] :
               es \in {e \in SeqsUpTo(ElemsOf(dt), MaxElems) : n = 0 => Len(e) = 1}} :
           n \in 0..MaxNdim, dt \in JsDtypes}

NoJsRet == [exc |-> "pending", msg |-> "", kind |-> "none", code |-> <<>>]

JsIdle ==
    /\ js_array = [ndim |-> 0, dtype |-> <<>>, elems |-> <<>>]
    /\ js_ret = NoJsRet
    /\ js_pc = "idle"

JsInit ==
    /\ js_array \in JsArrays
    /\ js_ret = NoJsRet
    /\ js_pc = "call"

\* one call array_to_jsbuffer(array)
ArrayToJsbuffer ==
    /\ js_pc = "call"
    /\ js_ret' = array_to_jsbuffer(js_array)
    /\ js_pc' = "done"
    /\ UNCHANGED js_array
-----------------------------------------------------------------------------
(* The specifications.                                                      *)

InitNorm == NormInit /\ ReluIdle /\ FwdIdle /\ IOIdle /\ JsIdle

NextNorm == CallNormalize /\ UNCHANGED <<relu_vars, fwd_vars, io_vars, js_vars>>

SpecNorm == InitNorm /\ [][NextNorm]_vars

InitRelu == ReluInit /\ NormIdle /\ FwdIdle /\ IOIdle /\ JsIdle

NextRelu ==
    \/ \E flag \in BOOLEAN : LayerForward(flag) /\ UNCHANGED <<norm_vars, fwd_vars, io_vars, js_vars>>
    \/ Backward /\ UNCHANGED <<norm_vars, fwd_vars, io_vars, js_vars>>

SpecRelu == InitRelu /\ [][NextRelu]_vars

InitFwd == FwdInit /\ NormIdle /\ ReluIdle /\ IOIdle /\ JsIdle

NextFwd ==
    \/ ForwardStep /\ UNCHANGED <<norm_vars, relu_vars, io_vars, js_vars>>
    \/ ForwardReturn /\ UNCHANGED <<norm_vars, relu_vars, io_vars, js_vars>>

SpecFwd == InitFwd /\ [][NextFwd]_vars

InitIO == SaveInit /\ NormIdle /\ ReluIdle /\ FwdIdle /\ JsIdle

NextIO == SaveImages /\ UNCHANGED <<norm_vars, relu_vars, fwd_vars, js_vars>>

SpecIO == InitIO /\ [][NextIO]_vars

InitLoad == LoadInit /\ NormIdle /\ ReluIdle /\ FwdIdle /\ JsIdle

NextLoad == LoadImages /\ UNCHANGED <<norm_vars, relu_vars, fwd_vars, js_vars>>

SpecLoad == InitLoad /\ [][NextLoad]_vars


InitRoundTrip == RoundTripInit /\ NormIdle /\ ReluIdle /\ FwdIdle /\ JsIdle

NextRoundTrip ==
    \/ SaveImages /\ UNCHANGED <<norm_vars, relu_vars, fwd_vars, js_vars>>
    \/ LoadSaved /\ UNCHANGED <<norm_vars, relu_vars, fwd_vars, js_vars>>

SpecRoundTrip == InitRoundTrip /\ [][NextRoundTrip]_vars

InitJs == JsInit /\ NormIdle /\ ReluIdle /\ FwdIdle /\ IOIdle

NextJs == ArrayToJsbuffer /\ UNCHANGED <<norm_vars, relu_vars, fwd_vars, io_vars>>

SpecJs == InitJs /\ [][NextJs]_vars
-----------------------------------------------------------------------------
(* Claims about normalize_array, checked under SpecNorm.                    *)

\* the call returned a uint8 array with every element in 0..255
ReturnedUint8Image ==
    /\ norm_ret.exc = "none"
    /\ norm_ret.dtype = "uint8"
    /\ \A i \in 1..Len(norm_ret.data) : norm_ret.data[i] \in 0..255

\* the array passed in meets the stated preconditions: rank <= 3, no NaN
Accepted == array_before.rank <= RankLimit /\ ~array_before.nan

\* the domain is None or a pair of bounds the array's dtype can hold
DomainFits ==
    \/ domain = None
    \/ Holds(array_before.dtype, domain[1]) /\ Holds(array_before.dtype, domain[2])

C2_CallerArrayUnchanged == norm_pc = "done" => array = array_before

\* C2 witness: a float array whose minimum is not 0 and whose range is not 0
\* went through the in-place subtraction and multiplication (no clipping, so
\* they ran on the copy itself)
C2_Witness ==
    /\ norm_pc = "done"
    /\ norm_ret.exc = "none"
    /\ IsInexact(array_before.dtype)
    /\ domain = None
    /\ Len(array_before.data) = 2
    /\ SeqMin(array_before.data) # 0
    /\ SeqMin(array_before.data) < SeqMax(array_before.data)
    /\ norm_ret.data # array_before.data

\* the uint8 value C3 and C4 state for element v under the domain <<lo, hi>>
\* (numerators): (v - lo) * 255 / (hi - lo), truncated
ExactScaled(v, lo, hi) == ((v - lo) * max_value) \div (hi - lo)

\* C3 as stated: with domain None and a float array with min < max, the
\* minimum maps to 0, the maximum to 255, and every other element v to
\* (v - min) * 255 / (max - min) truncated.
C3_InferredDomainExact ==
    (/\ norm_pc = "done"
     /\ Accepted
     /\ IsInexact(array_before.dtype)
     /\ domain = None
     /\ Len(array_before.data) > 0)
    => LET lo == SeqMin(array_before.data)
           hi == SeqMax(array_before.data)
       IN  lo < hi =>
             /\ norm_ret.exc = "none"
             /\ \A i \in 1..Len(array_before.data) :
                   LET v == array_before.data[i]
                   IN  norm_ret.data[i] =
                         IF v = lo THEN 0
                         ELSE IF v = hi THEN max_value
                         ELSE ExactScaled(v, lo, hi)

\* C4 as stated: with a domain low < high given and values outside it, a
\* float array's elements <= low map to 0, those >= high map to 255, and the
\* mapping is monotonically non-decreasing.
C4_ClippedToDomain ==
    (/\ norm_pc = "done"
     /\ Accepted
     /\ IsInexact(array_before.dtype)
     /\ domain # None
     /\ Len(array_before.data) > 0)
    => LET lo == F16(domain[1])
           hi == F16(domain[2])
           d  == array_before.data
       IN  (lo < hi /\ (SeqMin(d) < lo \/ SeqMax(d) > hi)) =>
             /\ norm_ret.exc = "none"
             /\ \A i \in 1..Len(d) :
                   /\ d[i] <= lo => norm_ret.data[i] = 0
                   /\ d[i] >= hi => norm_ret.data[i] = max_value
             /\ \A i, j \in 1..Len(d) :
                   d[i] <= d[j] => norm_ret.data[i] <= norm_ret.data[j]

-----------------------------------------------------------------------------
(* Claims about the activation layers, checked under SpecRelu.              *)

\* C5: after RedirectedReLU.backward, the returned gradient equals
\* grad_output where the saved input is >= 0 (0 included) and grad_output *
\* 0.1 where it is < 0, and grad_output itself is as it was.
C5_RedirectedGradient ==
    relu_pc = "backward_done" =>
        /\ Len(grad_input) = Len(grad_output_before)
        /\ \A i \in 1..Len(grad_input) :
              /\ input_tensor[i] >= 0 => grad_input[i] = grad_output_before[i]
              /\ input_tensor[i] < 0 => grad_input[i] * TENTHS = grad_output_before[i]
        /\ grad_output = grad_output_before

\* C5 witness: backward ran on an input with a negative element and an
\* element that is exactly 0, both with a non-zero incoming gradient
C5_Witness ==
    /\ relu_pc = "backward_done"
    /\ \E i, j \in 1..Len(input_tensor) :
          /\ input_tensor[i] < 0 /\ grad_output_before[i] # 0
          /\ input_tensor[j] = 0 /\ grad_output_before[j] # 0
          /\ grad_input[i] # grad_output_before[i]

\* C6: on the same input, the activation layer of a network built with
\* redirected_ReLU = TRUE and that of one built with redirected_ReLU = FALSE
\* return the same values, max(x, 0) elementwise.
C6_SameForward ==
    (layer_out[TRUE] # <<>> /\ layer_out[FALSE] # <<>>) =>
        /\ layer_out[TRUE] = layer_out[FALSE]
        /\ \A i \in 1..Len(input_tensor) :
              layer_out[TRUE][i] = (IF input_tensor[i] > 0 THEN input_tensor[i] ELSE 0)

\* C6 witness: both layers ran on an input with a negative and a positive
\* element
C6_Witness ==
    /\ layer_out[TRUE] # <<>>
    /\ layer_out[FALSE] # <<>>
    /\ \E i, j \in 1..Len(input_tensor) : input_tensor[i] < 0 /\ input_tensor[j] > 0

-----------------------------------------------------------------------------
(* Claims about InceptionV1.forward, checked under SpecFwd.                 *)

MixedBlocks ==
    <<"mixed3a", "mixed3b", "mixed4a", "mixed4b", "mixed4c", "mixed4d", "mixed4e",
      "mixed5a", "mixed5b">>

\* the blocks whose input passes through a stride-2 max-pool
Downsampled == {"mixed4a", "mixed5a"}

ConvOp(k) == OpRec("Conv2d", k, 1)

ReluOp == OpRec("relu", 0, 0)

PadOp == OpRec("pad", 0, 0)

PoolOp(s) == OpRec("maxpool", 3, s)

\* the four branches of a block, in concatenation order: 1x1, 3x3, 5x5,
\* pool_reduce
BranchOps ==
    << <<ConvOp(1), ReluOp>>,
       <<ConvOp(1), ReluOp, PadOp, ConvOp(3), ReluOp>>,
       <<ConvOp(1), ReluOp, PadOp, ConvOp(5), ReluOp>>,
       <<PadOp, PoolOp(1), ConvOp(1), ReluOp>> >>

\* the tensor a branch b started from, when its last n operations are the
\* branch's own: where that tensor came from
BranchInput(b, n) ==
    [src |-> b.src,
     ops |-> SubSeq(b.ops, 1, Len(b.ops) - n),
     chain |-> SubSeq(b.chain, 1, Len(b.ops) - n)]

\* the k-th concatenation is the k-th mixed block as C7 describes it
BlockAsClaimed(k) ==
    LET e  == fwd_cats[k]
        inp == BranchInput(e.branches[1], Len(BranchOps[1]))
    IN  /\ e.name = MixedBlocks[k]
        /\ e.dim = 1
        /\ Len(e.branches) = 4
        /\ \A i \in 1..4 :
              /\ EndsWith(e.branches[i].ops, BranchOps[i])
              /\ BranchInput(e.branches[i], Len(BranchOps[i])) = inp
        /\ k > 1 =>
              /\ inp.src = MixedBlocks[k - 1]
              /\ inp.ops = IF e.name \in Downsampled THEN <<PadOp, PoolOp(2)>> ELSE <<>>

\* C7: forward makes exactly nine concatenations, the mixed blocks 3a .. 5b
\* in order; each joins along dim 1, in the order (1x1, 3x3, 5x5,
\* pool_reduce), four branches computed from one block input, which is the
\* previous block's output, directly or (4a, 5a) through a stride-2 max-pool.
C7_NineMixedBlocks ==
    /\ Len(fwd_cats) <= Len(MixedBlocks)
    /\ \A k \in 1..Len(fwd_cats) : BlockAsClaimed(k)
    /\ fwd_status = "returned" => Len(fwd_cats) = 9

\* C7 witness: forward returned after its nine concatenations
C7_Witness ==
    /\ fwd_status = "returned"
    /\ Len(fwd_cats) = 9
    /\ fwd_cats[9].name = "mixed5b"

-----------------------------------------------------------------------------
(* Claims about save_images (SpecIO) and load_images (SpecLoad).            *)

SAVE_TYPES == {<<"n", "p", "y">>, <<"p", "n", "g">>, <<"m", "p", "4">>, <<"g", "i", "f">>}

\* the text after the last '.' of p is one of the four save types: p is the
\* type itself, or ends with a dot and the type
SupportedSavePath(p) == \E t \in SAVE_TYPES : p = t \/ EndsWith(p, <<DOT>> \o t)

\* normalize_array accepts every image of the list
AllNormalize(imgs) ==
    \A i \in 1..Len(imgs) :
        /\ ~imgs[i].nan
        /\ imgs[i].rank <= RankLimit
        /\ Len(imgs[i].data) > 0

\* C8, as stated: whenever save_images has been called with a save_path whose
\* text after the last '.' is not npy, png, mp4 or gif, it has raised
\* ValueError and no file has been written.
C8_UnsupportedRaisesValueError ==
    (io_pc = "saved" /\ ~SupportedSavePath(save_path))
        => (save_exc = "ValueError" /\ files = files_before)

\* C8, amended: for such a save_path no file is written, and the call raises
\* ValueError provided normalize_array accepts every image; when it rejects
\* one, the call raises that image's AssertionError instead.
C8_UnsupportedWritesNothing ==
    (io_pc = "saved" /\ ~SupportedSavePath(save_path))
        => /\ files = files_before
           /\ AllNormalize(images) => save_exc = "ValueError"
           /\ ~AllNormalize(images) => save_exc = "AssertionError"

\* save_images was given two images and a path ending in ".txt", and raised
\* ValueError
C8_Witness ==
    /\ io_pc = "saved"
    /\ ~SupportedSavePath(save_path)
    /\ EndsWith(save_path, <<".", "t", "x", "t">>)
    /\ Len(images) = 2
    /\ AllNormalize(images)
    /\ save_exc = "ValueError"
    /\ files = EmptyFS

\* the path p without its last four characters
WithoutExt(p) == SubSeq(p, 1, Len(p) - Len(EXT_PNG))

\* C9: after save_images has returned for a save_path ending in ".png", one
\* image has been written to the file named save_path itself, and n > 1
\* images have been written to exactly n files, image i to the file named
\* by the path without its extension, "_", i and ".png".
C9_PngNamesAsDocumented ==
    (io_pc = "saved" /\ save_exc = "none" /\ EndsWith(save_path, EXT_PNG))
        => /\ Len(images) = 1 => DOMAIN files = {save_path}
           /\ Len(images) > 1 =>
                /\ DOMAIN files = {WithoutExt(save_path) \o <<"_">> \o Str(i - 1) \o EXT_PNG :
                                      i \in 1..Len(images)}
                /\ Cardinality(DOMAIN files) = Len(images)

\* what one path contributes to the images load_images returns
ImagesAt(p, fs) ==
    IF EndsWith(p, EXT_NPY) THEN LoadNpy(fs[p])
    ELSE IF EndsWith(p, EXT_PNG) THEN <<[rank |-> fs[p].rank, data |-> fs[p].parts[1]]>>
    ELSE load_gif(fs[p])

RECURSIVE ImagesInOrder(_, _)
ImagesInOrder(ps, fs) ==
    IF ps = <<>> THEN <<>> ELSE ImagesAt(ps[1], fs) \o ImagesInOrder(Tail(ps), fs)

SupportedLoadPath(p) ==
    EndsWith(p, EXT_NPY) \/ EndsWith(p, EXT_PNG) \/ EndsWith(p, EXT_GIF)

\* the paths asked for, one string counting as a list of one
Requested == IF image_paths.is_str THEN <<image_paths.str>> ELSE image_paths.list

\* the loop reaches an unsupported path: the paths before it are supported
\* and their files exist
ReachesUnsupported ==
    \E i \in 1..Len(Requested) :
        /\ ~SupportedLoadPath(Requested[i])
        /\ \A j \in 1..(i - 1) :
              SupportedLoadPath(Requested[j]) /\ Requested[j] \in DOMAIN files

AllLoadable ==
    \A i \in 1..Len(Requested) :
        SupportedLoadPath(Requested[i]) /\ Requested[i] \in DOMAIN files

\* C10: after load_images has been called with one path or a list of paths,
\* it has raised ValueError and returned nothing if it reached a path ending
\* with none of .npy, .png, .gif; if every path is supported and its file
\* exists, the images it returns are those of the files concatenated in the
\* order of the paths, and it returns them as a list unless asked for an
\* array.
C10_LoadInPathOrder ==
    io_pc = "loaded"
        => /\ ReachesUnsupported
                => load_ret.exc = "ValueError" /\ load_ret.images = <<>>
           /\ (AllLoadable /\ ~return_as_numpy)
                => /\ load_ret.exc = "none"
                   /\ load_ret.kind = "list"
                   /\ load_ret.images = ImagesInOrder(Requested, files)
           /\ (AllLoadable /\ load_ret.exc = "none")
                => load_ret.images = ImagesInOrder(Requested, files)

\* load_images was given the list [a.npy, a.gif], the two files holding
\* different images, and returned the images of a.npy followed by the frames
\* of a.gif
C10_Witness ==
    /\ io_pc = "loaded"
    /\ ~image_paths.is_str
    /\ image_paths.list = <<PATH_NPY, PATH_GIF>>
    /\ AllLoadable
    /\ load_ret.exc = "none"
    /\ Len(load_ret.images) >= 2
    /\ load_ret.images[1].data # load_ret.images[Len(load_ret.images)].data
    /\ load_ret.images = LoadNpy(files[PATH_NPY]) \o load_gif(files[PATH_GIF])

-----------------------------------------------------------------------------
(* Claims about a .npy file saved and loaded again (SpecRoundTrip).         *)

\* C11: when load_images has returned a list for the file that
\* save_images(images, save_path) wrote for a save_path ending in ".npy",
\* the list has one entry per image saved, entry i holding the data of the
\* normalized image i.
C11_NpyRoundTrip ==
    (io_pc = "loaded" /\ load_ret.exc = "none" /\ load_ret.kind = "list")
        => /\ Len(load_ret.images) = Len(images)
           /\ \A i \in 1..Len(images) :
                 load_ret.images[i].data = files[save_path].parts[i]

-----------------------------------------------------------------------------
(* Claims about array_to_jsbuffer, checked under SpecJs.                    *)

\* the eight dtype names C12 lists
ListedDtypes ==
    { <<"i", "n", "t", "8">>, <<"i", "n", "t", "1", "6">>, <<"i", "n", "t", "3", "2">>, <<"u", "i", "n", "t", "8">>,
      <<"u", "i", "n", "t", "1", "6">>, <<"u", "i", "n", "t", "3", "2">>, <<"f", "l", "o", "a", "t", "3", "2">>, <<"f", "l", "o", "a", "t", "6", "4">> }

\* C12: after array_to_jsbuffer has been called, it has either raised
\* TypeError or returned a string; it has raised TypeError exactly when the
\* array is not 1-dimensional or its dtype name is not one of the eight
\* listed, with the message of the dimension check whenever the array is not
\* 1-dimensional.
C12_TypeErrorOrString ==
    js_pc = "done"
        => /\ js_ret.exc \in {"TypeError", "none"}
           /\ js_ret.exc = "TypeError"
                <=> (js_array.ndim # 1 \/ js_array.dtype \notin ListedDtypes)
           /\ js_array.ndim # 1
                => js_ret.msg = "Only 1d arrays can be converted JS TypedArray."
           /\ js_ret.exc = "none" => js_ret.kind = "str"

\* a 1-dimensional int64 array of two elements was rejected for its dtype
C12_Witness ==
    /\ js_pc = "done"
    /\ js_array.ndim = 1
    /\ js_array.dtype = <<"i", "n", "t", "6", "4">>
    /\ Len(js_array.elems) = 2
    /\ js_ret.exc = "TypeError"
    /\ js_ret.msg = "Array dtype not supported by JS TypedArray."

-----------------------------------------------------------------------------
(* Claims about the channel counts along forward, checked under SpecFwd.    *)

\* the channels C13 states for the concatenations mixed3a .. mixed5b
BlockChannels == <<256, 480, 508, 512, 512, 528, 832, 832, 1024>>

\* the in_channels C13 states for the convolutions fed from the input
\* through 0, 1, 2 and 3 earlier convolutions: the stem, then mixed3a
StemChannels == <<3, 64, 64, 192>>

LINEAR == "softmax2_pre_activation_matmul"

\* the number of convolutions among the operations ops
RECURSIVE ConvCount(_)
ConvCount(ops) ==
    IF ops = <<>> THEN 0
    ELSE (IF ops[1].op = "Conv2d" THEN 1 ELSE 0) + ConvCount(Tail(ops))

\* the position of a block in MixedBlocks, 0 for any other name
BlockIndex(name) ==
    IF \E k \in 1..Len(MixedBlocks) : MixedBlocks[k] = name
    THEN CHOOSE k \in 1..Len(MixedBlocks) : MixedBlocks[k] = name
    ELSE 0

\* the statements of forward executed so far that call a convolution or the
\* linear layer
ExecutedModuleCalls ==
    {i \in 1..(fwd_pc - 1) : ForwardStmts[i].callee \in DOMAIN InitModules}

\* the k-th concatenation has the channels stated, the sum of the
\* out_channels of the four convolutions that end its branches, and its 3x3
\* and 5x5 convolutions take in what their bottlenecks put out
BlockChannelsAsClaimed(k) ==
    LET b == fwd_cats[k].branches
        last(i) == b[i].chain[Len(b[i].chain) - 1]
        bottleneck(i) == b[i].chain[Len(b[i].chain) - 4]
    IN  /\ Len(b) = 4
        /\ InitModules[last(1)].out_channels + InitModules[last(2)].out_channels
             + InitModules[last(3)].out_channels + InitModules[last(4)].out_channels
             = BlockChannels[k]
        /\ fwd_env[MixedBlocks[k]].ch = BlockChannels[k]
        /\ \A i \in {2, 3} :
              InitModules[last(i)].in_channels = InitModules[bottleneck(i)].out_channels

\* the module called by statement i takes in what C13 states for it
ConsumerAsClaimed(i) ==
    LET stmt == ForwardStmts[i]
        m == InitModules[stmt.callee]
        t == fwd_env[stmt.args[1]]
    IN  /\ m.in_channels = t.ch
        /\ (ConvCount(t.ops) = 0 /\ BlockIndex(t.src) > 0)
              => m.in_channels = BlockChannels[BlockIndex(t.src)]
        /\ (t.src = "x" /\ ConvCount(t.ops) < Len(StemChannels))
              => m.in_channels = StemChannels[ConvCount(t.ops) + 1]

\* C13: while forward runs on a 3-channel image no module is handed a tensor
\* whose channels differ from its in_channels; the nine concatenations have
\* 256, 480, 508, 512, 512, 528, 832, 832 and 1024 channels, each the sum of
\* its four branches' out_channels and the in_channels of every convolution
\* fed from it; the 3x3 and 5x5 convolutions take in their bottleneck's
\* out_channels; the stem is 3 -> 64 -> 64 -> 192 -> mixed3a; and the linear
\* layer's in_features are the 1024 channels of mixed5b.
C13_ChannelsConsistent ==
    (fwd_status # "idle" /\ fwd_env["x"].ch = StemChannels[1])
        => /\ fwd_status # "RuntimeError"
           /\ \A k \in 1..Len(fwd_cats) : BlockChannelsAsClaimed(k)
           /\ \A i \in ExecutedModuleCalls : ConsumerAsClaimed(i)
           /\ LINEAR \in DOMAIN fwd_env
                => /\ InitModules[LINEAR].in_channels = fwd_env["mixed5b"].ch
                   /\ fwd_env["mixed5b"].ch = BlockChannels[Len(BlockChannels)]

\* forward returned for a 3-channel image: the linear layer was applied to
\* what came from the 1024 channels of mixed5b
C13_Witness ==
    /\ fwd_status = "returned"
    /\ fwd_env["x"].ch = 3
    /\ Len(fwd_cats) = 9
    /\ fwd_env["mixed5b"].ch = 1024
    /\ fwd_env[LINEAR].src = "mixed5b"
    /\ ConvCount(fwd_env[LINEAR].ops) = 0
=============================================================================
